---- MODULE Spec2Model ----
(***************************************************************************)
(* A model of claude-setup: the settings merge engine (merge.py), the      *)
(* settings field classifier and the reverse template substitution         *)
(* (create_config.py), the install planner and the installer with its      *)
(* backups and version stamp (installer.py, categories.py, backup.py,      *)
(* version.py), and the loading of the sources config (sources.py).        *)
(*                                                                         *)
(* A settings document (a Python dict) is a function from its keys to its  *)
(* values; a JSON list is a sequence; a string is a TLA+ string, except    *)
(* where the code works on the characters (the template substitution),     *)
(* where it is a sequence of characters.                                   *)
(***************************************************************************)
EXTENDS Integers, Sequences, FiniteSets, TLC

VARIABLES
    pc,                 \* which operation has run: the position of the driver
    source_settings,    \* merge_settings: the source argument (team settings)
    target_settings,    \* merge_settings: the target argument (user settings)
    merged_settings,    \* merge_settings(source_settings, target_settings)
    remerged_settings,  \* merge_settings(source_settings, merged_settings)
    raw,                \* scan_settings: the document loaded from settings.json
    team_fields,        \* scan_settings: ScannedSettings.team_fields
    personal_fields,    \* scan_settings: ScannedSettings.personal_fields
    data,               \* apply_reverse_templates: the document given
    templated,          \* apply_reverse_templates(data, home)
    resolved,           \* resolve_templates(templated, home)
    config_files,       \* the files under config_dir, by path
    target_files,       \* the files under the home directory, by path
    categories,         \* compute_plan, install: the category names asked for
    plan,               \* compute_plan(categories)
    plan_again,         \* compute_plan(categories), called once more
    target_dirs,        \* the directories under the home directory
    target_writable,    \* os.access(target_dir, os.W_OK)
    backups,            \* the directories under ~/.claude/backups, by name
    stamp,              \* ~/.claude/.claude-setup-version.json
    now,                \* the clock, in whole seconds
    outcome,            \* what the latest install returned or raised
    first_outcome,      \* what the first install returned or raised
    before,             \* the target side as it was before the latest install
    environ,            \* os.environ: the variables that are set, with their values
    sources_file,       \* the sources config file given to load_sources
    sources,            \* SourceManager.sources
    loaded,             \* what load_sources returned or raised
    fetched,            \* the sources whose fetch was called, in order
    updates,            \* what has_updates returned
    stamped_files,      \* history: the source tree when the stamp was last written
    edits,              \* how many edits the trees have had since the install
    backup_list,        \* what list_backups returned or raised
    restored,           \* what restore_backup returned or raised
    snapshots,          \* history: the files each backup held when it was created
    cache,              \* the entries of the cache directory, by source name
    origin,             \* what the place a source fetches from holds
    fetch_outcome,      \* what the latest fetch returned or raised
    stale               \* history: the cache entry the first fetch left

mergeVars == <<source_settings, target_settings, merged_settings, remerged_settings>>
scanVars == <<raw, team_fields, personal_fields>>
templateVars == <<data, templated, resolved>>
planVars == <<config_files, target_files, categories, plan>>
installVars == <<plan_again, target_dirs, target_writable, backups, stamp, now, outcome,
                 first_outcome, before>>

sourceVars == <<environ, sources_file, sources, loaded, fetched>>
versionVars == <<updates, stamped_files, edits>>
restoreVars == <<backup_list, restored, snapshots>>
fetchVars == <<cache, origin, fetch_outcome, stale>>

vars == <<pc, mergeVars, scanVars, templateVars, planVars, installVars, sourceVars,
         versionVars, restoreVars, fetchVars>>

----------------------------------------------------------------------------
(* Python dict helpers *)

\* {} : the empty dict
EmptyDict == [k \in {} |-> TRUE]

\* d.get(k, default)
Get(d, k, default) == IF k \in DOMAIN d THEN d[k] ELSE default

\* d[k] = v on a copy of d
Put(d, k, v) == [x \in (DOMAIN d) \cup {k} |-> IF x = k THEN v ELSE d[x]]

\* result = {}; result.update(a); result.update(b)
Update(a, b) ==
    [x \in (DOMAIN a) \cup (DOMAIN b) |-> IF x \in DOMAIN b THEN b[x] ELSE a[x]]

\* set(list)
SeqToSet(s) == {s[i] : i \in 1..Len(s)}

----------------------------------------------------------------------------
(* Strings that the code orders: Python compares str by code point, so the *)
(* permission rules are listed here in ascending code point order.         *)

PermOrder == <<"Bash", "Edit", "Fetch", "Read", "Write">>

Rank(s) == CHOOSE i \in 1..Len(PermOrder) : PermOrder[i] = s

\* sorted(S) for a set S of permission rules
RECURSIVE Sorted(_)
Sorted(S) ==
    IF S = {} THEN <<>>
    ELSE LET m == CHOOSE x \in S : \A y \in S : Rank(x) <= Rank(y)
         IN  <<m>> \o Sorted(S \ {m})

----------------------------------------------------------------------------
(* merge.py *)

\* A plausible slip in _merge_permissions: the two allow lists are
\* concatenated instead of united and sorted.
merge_permissions_concat(source, target) ==
    LET combined_allow == Get(source, "allow", <<>>) \o Get(target, "allow", <<>>)
        r0 == EmptyDict
        r1 == IF combined_allow # <<>> THEN Put(r0, "allow", combined_allow) ELSE r0
        r2 == IF "deny" \in DOMAIN target THEN Put(r1, "deny", target["deny"]) ELSE r1
        r3 == IF "ask" \in DOMAIN target THEN Put(r2, "ask", target["ask"]) ELSE r2
    IN  r3

\* A plausible slip in _merge_permissions: deny and ask are read from the
\* team side when the user has none.
merge_permissions_team_deny(source, target) ==
    LET source_allow == SeqToSet(Get(source, "allow", <<>>))
        target_allow == SeqToSet(Get(target, "allow", <<>>))
        combined_allow == Sorted(source_allow \cup target_allow)
        both == Update(source, target)
        r0 == EmptyDict
        r1 == IF combined_allow # <<>> THEN Put(r0, "allow", combined_allow) ELSE r0
        r2 == IF "deny" \in DOMAIN both THEN Put(r1, "deny", both["deny"]) ELSE r1
        r3 == IF "ask" \in DOMAIN both THEN Put(r2, "ask", both["ask"]) ELSE r2
    IN  r3

\* A plausible slip in _merge_permissions: the team's allow list is left out
\* of the union.
merge_permissions_target_allow_only(source, target) ==
    LET target_allow == SeqToSet(Get(target, "allow", <<>>))
        combined_allow == Sorted(target_allow)
        r0 == EmptyDict
        r1 == IF combined_allow # <<>> THEN Put(r0, "allow", combined_allow) ELSE r0
        r2 == IF "deny" \in DOMAIN target THEN Put(r1, "deny", target["deny"]) ELSE r1
        r3 == IF "ask" \in DOMAIN target THEN Put(r2, "ask", target["ask"]) ELSE r2
    IN  r3

_merge_permissions(source, target) ==
    LET source_allow == SeqToSet(Get(source, "allow", <<>>))
        target_allow == SeqToSet(Get(target, "allow", <<>>))
        combined_allow == Sorted(source_allow \cup target_allow)
        r0 == EmptyDict
        r1 == IF combined_allow # <<>> THEN Put(r0, "allow", combined_allow) ELSE r0
        r2 == IF "deny" \in DOMAIN target THEN Put(r1, "deny", target["deny"]) ELSE r1
        r3 == IF "ask" \in DOMAIN target THEN Put(r2, "ask", target["ask"]) ELSE r2
    IN  r3

\* A plausible slip in _merge_plugins: the two updates in the other order,
\* so that the user's entry wins on a collision.
merge_plugins_user_wins(source, target) == Update(source, target)

_merge_plugins(source, target) == Update(Update(EmptyDict, target), source)

\* A plausible slip in merge_settings: an override key is set only when the
\* user has none.
overwrite_if_absent(result, source, key) ==
    IF key \in DOMAIN source /\ key \notin DOMAIN result
    THEN Put(result, key, source[key])
    ELSE result

\* if key in source: result[key] = source[key]
Overwrite(result, source, key) ==
    IF key \in DOMAIN source THEN Put(result, key, source[key]) ELSE result

\* A plausible slip in merge_settings: the result starts from both documents,
\* so that every key of the team document is copied.
start_from_both(source, target) == Update(source, target)

\* result = {}; result.update(target)
StartFromTarget(source, target) == Update(EmptyDict, target)

merge_settings(source, target) ==
    LET r0 == StartFromTarget(source, target)
        r1 == IF "permissions" \in DOMAIN source \/ "permissions" \in DOMAIN target
              THEN Put(r0, "permissions",
                       _merge_permissions(Get(source, "permissions", EmptyDict),
                                          Get(target, "permissions", EmptyDict)))
              ELSE r0
        r2 == Overwrite(r1, source, "model")
        r3 == Overwrite(r2, source, "statusLine")
        r4 == Overwrite(r3, source, "alwaysThinkingEnabled")
        r5 == IF "enabledPlugins" \in DOMAIN source \/ "enabledPlugins" \in DOMAIN target
              THEN Put(r4, "enabledPlugins",
                       _merge_plugins(Get(source, "enabledPlugins", EmptyDict),
                                      Get(target, "enabledPlugins", EmptyDict)))
              ELSE r4
        r6 == IF "feedbackSurveyState" \in DOMAIN target
              THEN Put(r5, "feedbackSurveyState", target["feedbackSurveyState"])
              ELSE r5
        r7 == Overwrite(r6, source, "$schema")
    IN  r7

----------------------------------------------------------------------------
(* The settings documents the merge is run on *)

\* the longest permissions.allow list of an input document
MaxAllow == 2

\* the rules an input allow list is made of
AllowRules == {"Bash", "Read"}

\* every list over S of length at most n
RECURSIVE SeqsUpTo(_, _)
SeqsUpTo(S, n) ==
    IF n = 0 THEN {<<>>}
    ELSE LET shorter == SeqsUpTo(S, n - 1)
         IN  shorter \cup {Append(s, x) : s \in {t \in shorter : Len(t) = n - 1}, x \in S}

\* the documents with key k absent, or present with one of the values
Opt(k, values) == {EmptyDict} \cup {k :> v : v \in values}

\* the union of one document of each set (the sets have disjoint keys)
Join2(A, B) == {a @@ b : a \in A, b \in B}

\* permissions objects: allow, deny and ask lists, and one further sub-key
PermissionsObjects ==
    Join2(Join2(Opt("allow", SeqsUpTo(AllowRules, MaxAllow)),
                Opt("deny", {<<"Edit">>, <<"Write">>})),
          Join2(Opt("ask", {<<"Fetch">>}),
                Opt("defaultMode", {"plan"})))

\* documents that hold a permissions object and nothing else
PermissionsDocs == {"permissions" :> p : p \in PermissionsObjects}

\* documents over the keys the team overwrites
OverrideDocs ==
    Join2(Join2(Opt("model", {"opus", "sonnet"}),
                Opt("statusLine", {"bash {{HOME}}/.claude/statusline.sh", "none"})),
          Join2(Opt("alwaysThinkingEnabled", {TRUE, FALSE}),
                Opt("$schema", {"https://json.schemastore.org/claude-code-settings.json"})))

PluginNames == {"shared-plugin", "user-plugin"}

\* enabledPlugins maps: every partial map from the plugin names to a flag
PluginMaps ==
    UNION {[names -> BOOLEAN] : names \in SUBSET PluginNames}

PluginDocs == {"enabledPlugins" :> m : m \in PluginMaps}

\* documents over the keys without a merge rule of their own
OtherDocs ==
    Join2(Opt("feedbackSurveyState", {"seen", "dismissed"}),
          Opt("customKey", {"team-value", "user-value"}))

\* documents that hold keys of every kind at once
MixedDocs ==
    Join2(Join2({"permissions" :> p : p \in
                    {("allow" :> <<"Read", "Bash">>) @@ ("deny" :> <<"Edit">>),
                     ("allow" :> <<"Write">>) @@ ("ask" :> <<"Fetch">>)
                        @@ ("defaultMode" :> "plan")}},
                {d \in OverrideDocs : DOMAIN d = {"model", "alwaysThinkingEnabled"}}),
          Join2({"enabledPlugins" :> m : m \in {p \in PluginMaps : DOMAIN p = PluginNames}},
                {d \in OtherDocs : DOMAIN d # {}}))

SettingsDocs == PermissionsDocs \cup OverrideDocs \cup PluginDocs \cup OtherDocs
                    \cup MixedDocs

----------------------------------------------------------------------------
(* The merge, run once on a pair of documents and once more on its result *)

\* the variables of the other operations, which the merge leaves alone
notMergeVars == <<scanVars, templateVars, planVars, installVars, sourceVars,
                  versionVars, restoreVars, fetchVars>>

MergeIdle ==
    /\ source_settings = EmptyDict
    /\ target_settings = EmptyDict
    /\ merged_settings = EmptyDict
    /\ remerged_settings = EmptyDict

ScanIdle ==
    /\ raw = EmptyDict
    /\ team_fields = EmptyDict
    /\ personal_fields = EmptyDict

TemplateIdle ==
    /\ data = EmptyDict
    /\ templated = EmptyDict
    /\ resolved = EmptyDict

PlanIdle ==
    /\ config_files = EmptyDict
    /\ target_files = EmptyDict
    /\ categories = <<>>
    /\ plan = EmptyDict

InstallIdle ==
    /\ plan_again = EmptyDict
    /\ target_dirs = {}
    /\ target_writable = TRUE
    /\ backups = EmptyDict
    /\ stamp = EmptyDict
    /\ now = 0
    /\ outcome = EmptyDict
    /\ first_outcome = EmptyDict
    /\ before = EmptyDict

SourcesIdle ==
    /\ environ = EmptyDict
    /\ sources_file = EmptyDict
    /\ sources = <<>>
    /\ loaded = EmptyDict
    /\ fetched = <<>>

VersionIdle ==
    /\ updates = "none"
    /\ stamped_files = EmptyDict
    /\ edits = 0

RestoreIdle ==
    /\ backup_list = EmptyDict
    /\ restored = EmptyDict
    /\ snapshots = EmptyDict

FetchIdle ==
    /\ cache = EmptyDict
    /\ origin = EmptyDict
    /\ fetch_outcome = EmptyDict
    /\ stale = EmptyDict

InitMerge ==
    /\ pc = "loaded"
    /\ source_settings \in SettingsDocs
    /\ target_settings \in SettingsDocs
    /\ merged_settings = EmptyDict
    /\ remerged_settings = EmptyDict
    /\ ScanIdle
    /\ TemplateIdle
    /\ PlanIdle
    /\ InstallIdle
    /\ SourcesIdle
    /\ VersionIdle
    /\ RestoreIdle
    /\ FetchIdle

\* merged_settings = merge_settings(source_settings, target_settings)
Merge ==
    /\ pc = "loaded"
    /\ merged_settings' = merge_settings(source_settings, target_settings)
    /\ pc' = "merged"
    /\ UNCHANGED <<source_settings, target_settings, remerged_settings, notMergeVars>>

\* the next install: the merge of the same team document into the result
MergeAgain ==
    /\ pc = "merged"
    /\ remerged_settings' = merge_settings(source_settings, merged_settings)
    /\ pc' = "remerged"
    /\ UNCHANGED <<source_settings, target_settings, merged_settings, notMergeVars>>

NextMerge == Merge \/ MergeAgain

SpecMerge == InitMerge /\ [][NextMerge]_vars

----------------------------------------------------------------------------
(* Claims about merge_settings, checked under SpecMerge *)

PermissionsOf(d) == Get(d, "permissions", EmptyDict)

AllowSetOf(d) == SeqToSet(Get(PermissionsOf(d), "allow", <<>>))

\* a is strictly ascending in code point order (so no element is in it twice)
StrictlyAscending(a) == \A i, j \in 1..Len(a) : i < j => Rank(a[i]) < Rank(a[j])

\* C1: merging the team document again into the result of a merge gives the
\* same document: merge_settings(T, merge_settings(T, U)) = merge_settings(T, U).
C1_MergeIdempotent ==
    pc = "remerged" => remerged_settings = merged_settings

\* C1 witness: a second merge has run after a first one that changed the
\* user's document: both sides had allow rules the other lacked.
C1_Witness ==
    /\ pc = "remerged"
    /\ merged_settings # target_settings
    /\ AllowSetOf(source_settings) \ AllowSetOf(target_settings) # {}
    /\ AllowSetOf(target_settings) \ AllowSetOf(source_settings) # {}

\* C2 as claimed: whenever one of the documents has a permissions object, the
\* result's permissions.allow is a list, the sorted duplicate-free union of
\* the two allow lists.
C2_AllowIsSortedUnion ==
    (pc = "merged" /\ ("permissions" \in DOMAIN source_settings
                        \/ "permissions" \in DOMAIN target_settings))
    => /\ "permissions" \in DOMAIN merged_settings
       /\ "allow" \in DOMAIN merged_settings["permissions"]
       /\ SeqToSet(merged_settings["permissions"]["allow"])
            = AllowSetOf(source_settings) \cup AllowSetOf(target_settings)
       /\ StrictlyAscending(merged_settings["permissions"]["allow"])

\* C2 amended: whenever one of the documents has a permissions object, the
\* result has one; if the union of the two allow lists is not empty, allow is
\* that union as a strictly ascending list, and if the union is empty the
\* result's permissions object has no allow key.
C2_AllowIsSortedUnionOrAbsent ==
    (pc = "merged" /\ ("permissions" \in DOMAIN source_settings
                        \/ "permissions" \in DOMAIN target_settings))
    => /\ "permissions" \in DOMAIN merged_settings
       /\ LET both == AllowSetOf(source_settings) \cup AllowSetOf(target_settings)
              perms == merged_settings["permissions"]
          IN  IF both = {}
              THEN "allow" \notin DOMAIN perms
              ELSE /\ "allow" \in DOMAIN perms
                   /\ SeqToSet(perms["allow"]) = both
                   /\ StrictlyAscending(perms["allow"])

\* C2 witness: a merge of an unsorted team list and a user list with a rule
\* in common and a duplicate.
C2_Witness ==
    /\ pc = "merged"
    /\ Get(PermissionsOf(source_settings), "allow", <<>>) = <<"Read", "Bash">>
    /\ Get(PermissionsOf(target_settings), "allow", <<>>) = <<"Read", "Read">>
    /\ merged_settings["permissions"]["allow"] = <<"Bash", "Read">>

OverrideKeys == {"model", "statusLine", "alwaysThinkingEnabled", "$schema"}

\* C3: a key of model, statusLine, alwaysThinkingEnabled, $schema that the team
\* document defines has the team's value in the result, whatever the user had.
C3_TeamOverwrites ==
    pc = "merged" =>
        \A k \in OverrideKeys :
            k \in DOMAIN source_settings =>
                /\ k \in DOMAIN merged_settings
                /\ merged_settings[k] = source_settings[k]

\* C3 witness: the user held another model and another status line than the
\* team, and had no $schema, before a merge that set all three.
C3_Witness ==
    /\ pc = "merged"
    /\ {"model", "statusLine", "$schema"} \subseteq DOMAIN source_settings
    /\ {"model", "statusLine"} \subseteq DOMAIN target_settings
    /\ "$schema" \notin DOMAIN target_settings
    /\ target_settings["model"] # source_settings["model"]
    /\ target_settings["statusLine"] # source_settings["statusLine"]

\* C4: permissions.deny and permissions.ask are in the result exactly when the
\* user's document has them, with the user's value; the team's never appear.
C4_DenyAskFromTarget ==
    pc = "merged" =>
        \A k \in {"deny", "ask"} :
            /\ k \in DOMAIN PermissionsOf(merged_settings)
                <=> k \in DOMAIN PermissionsOf(target_settings)
            /\ k \in DOMAIN PermissionsOf(target_settings)
                => PermissionsOf(merged_settings)[k] = PermissionsOf(target_settings)[k]

\* C4 witness: the team supplied a deny list and an ask list, the user another
\* deny list and no ask list.
C4_Witness ==
    /\ pc = "merged"
    /\ {"deny", "ask"} \subseteq DOMAIN PermissionsOf(source_settings)
    /\ "deny" \in DOMAIN PermissionsOf(target_settings)
    /\ "ask" \notin DOMAIN PermissionsOf(target_settings)
    /\ PermissionsOf(target_settings)["deny"] # PermissionsOf(source_settings)["deny"]

\* C5: when either document has enabledPlugins, the result's enabledPlugins has
\* the keys of both maps, the team's value for a team key and the user's value
\* for a key only the user has.
C5_PluginsMapUnion ==
    (pc = "merged" /\ ("enabledPlugins" \in DOMAIN source_settings
                        \/ "enabledPlugins" \in DOMAIN target_settings))
    => /\ "enabledPlugins" \in DOMAIN merged_settings
       /\ LET sp == Get(source_settings, "enabledPlugins", EmptyDict)
              tp == Get(target_settings, "enabledPlugins", EmptyDict)
              mp == merged_settings["enabledPlugins"]
          IN  /\ DOMAIN mp = (DOMAIN sp) \cup (DOMAIN tp)
              /\ \A k \in DOMAIN sp : mp[k] = sp[k]
              /\ \A k \in (DOMAIN tp) \ (DOMAIN sp) : mp[k] = tp[k]

\* C5 witness: team and user disagree on one plugin and the user has one more.
C5_Witness ==
    /\ pc = "merged"
    /\ "enabledPlugins" \in DOMAIN source_settings
    /\ "enabledPlugins" \in DOMAIN target_settings
    /\ DOMAIN source_settings["enabledPlugins"] = {"shared-plugin"}
    /\ DOMAIN target_settings["enabledPlugins"] = PluginNames
    /\ source_settings["enabledPlugins"]["shared-plugin"]
        # target_settings["enabledPlugins"]["shared-plugin"]

\* the keys merge_settings has a team rule for
RecognizedKeys ==
    {"permissions", "model", "statusLine", "alwaysThinkingEnabled", "enabledPlugins",
     "$schema"}

\* C6: a top-level key outside the recognized ones is in the result exactly
\* when the user's document has it, with the user's value; the team's is not
\* copied.
C6_OtherKeysFromTarget ==
    pc = "merged" =>
        \A k \in ((DOMAIN source_settings) \cup (DOMAIN target_settings)
                    \cup (DOMAIN merged_settings)) \ RecognizedKeys :
            /\ k \in DOMAIN merged_settings <=> k \in DOMAIN target_settings
            /\ k \in DOMAIN target_settings => merged_settings[k] = target_settings[k]

\* C6 witness: the team has a custom key the user lacks and a survey state
\* that differs from the user's.
C6_Witness ==
    /\ pc = "merged"
    /\ {"customKey", "feedbackSurveyState"} \subseteq DOMAIN source_settings
    /\ "customKey" \notin DOMAIN target_settings
    /\ "feedbackSurveyState" \in DOMAIN target_settings
    /\ target_settings["feedbackSurveyState"] # source_settings["feedbackSurveyState"]

\* C7 as claimed: every sub-key of the user's permissions object other than
\* allow is in the result's permissions object with the same value.
C7_PermissionsSubKeysKept ==
    (pc = "merged" /\ "permissions" \in DOMAIN target_settings)
    => \A k \in (DOMAIN target_settings["permissions"]) \ {"allow"} :
            /\ k \in DOMAIN PermissionsOf(merged_settings)
            /\ PermissionsOf(merged_settings)[k] = target_settings["permissions"][k]

----------------------------------------------------------------------------
(* create_config.py: scan_settings, the split of a settings document into   *)
(* team fields and personal fields                                          *)

TEAM_FIELD_NAMES == {"$schema", "model", "statusLine", "alwaysThinkingEnabled"}

\* A plausible slip in the loop body: the final else branch is missing, so a
\* key without a rule of its own is in neither bucket.
classify_field_drops_unknown(fields, key, value) ==
    IF key \in TEAM_FIELD_NAMES
    THEN [fields EXCEPT !.team_fields = Put(@, key, value)]
    ELSE IF key = "permissions"
    THEN LET perms == IF "allow" \in DOMAIN value
                      THEN Put(EmptyDict, "allow", value["allow"]) ELSE EmptyDict
             f1 == IF perms # EmptyDict
                   THEN [fields EXCEPT !.team_fields = Put(@, "permissions", perms)]
                   ELSE fields
             p1 == IF "deny" \in DOMAIN value
                   THEN Put(EmptyDict, "deny", value["deny"]) ELSE EmptyDict
             personal_perms == IF "ask" \in DOMAIN value
                               THEN Put(p1, "ask", value["ask"]) ELSE p1
         IN  IF personal_perms # EmptyDict
             THEN [f1 EXCEPT !.personal_fields = Put(@, "permissions", personal_perms)]
             ELSE f1
    ELSE IF key = "enabledPlugins"
    THEN [fields EXCEPT !.team_fields = Put(@, "enabledPlugins", value)]
    ELSE IF key = "feedbackSurveyState"
    THEN [fields EXCEPT !.personal_fields = Put(@, key, value)]
    ELSE fields

\* the body of `for key, value in raw.items()`: fields holds the two buckets
ClassifyField(fields, key, value) ==
    IF key \in TEAM_FIELD_NAMES
    THEN [fields EXCEPT !.team_fields = Put(@, key, value)]
    ELSE IF key = "permissions"
    THEN LET perms == IF "allow" \in DOMAIN value
                      THEN Put(EmptyDict, "allow", value["allow"]) ELSE EmptyDict
             f1 == IF perms # EmptyDict
                   THEN [fields EXCEPT !.team_fields = Put(@, "permissions", perms)]
                   ELSE fields
             p1 == IF "deny" \in DOMAIN value
                   THEN Put(EmptyDict, "deny", value["deny"]) ELSE EmptyDict
             personal_perms == IF "ask" \in DOMAIN value
                               THEN Put(p1, "ask", value["ask"]) ELSE p1
         IN  IF personal_perms # EmptyDict
             THEN [f1 EXCEPT !.personal_fields = Put(@, "permissions", personal_perms)]
             ELSE f1
    ELSE IF key = "enabledPlugins"
    THEN [fields EXCEPT !.team_fields = Put(@, "enabledPlugins", value)]
    ELSE IF key = "feedbackSurveyState"
    THEN [fields EXCEPT !.personal_fields = Put(@, key, value)]
    ELSE [fields EXCEPT !.personal_fields = Put(@, key, value)]

\* the loop over raw.items(), one key at a time
RECURSIVE ClassifyFields(_, _, _)
ClassifyFields(document, keys, fields) ==
    IF keys = {} THEN fields
    ELSE LET key == CHOOSE k \in keys : TRUE
         IN  ClassifyFields(document, keys \ {key},
                            ClassifyField(fields, key, document[key]))

\* scan_settings on a settings.json that exists and holds `document`
scan_settings(document) ==
    ClassifyFields(document, DOMAIN document,
                   [team_fields |-> EmptyDict, personal_fields |-> EmptyDict])

InitScan ==
    /\ pc = "loaded"
    /\ raw \in SettingsDocs
    /\ team_fields = EmptyDict
    /\ personal_fields = EmptyDict
    /\ MergeIdle
    /\ TemplateIdle
    /\ PlanIdle
    /\ InstallIdle
    /\ SourcesIdle
    /\ VersionIdle
    /\ RestoreIdle
    /\ FetchIdle

ScanSettings ==
    /\ pc = "loaded"
    /\ team_fields' = scan_settings(raw).team_fields
    /\ personal_fields' = scan_settings(raw).personal_fields
    /\ pc' = "scanned"
    /\ UNCHANGED <<raw, mergeVars, templateVars, planVars, installVars, sourceVars,
                   versionVars, restoreVars, fetchVars>>

NextScan == ScanSettings

SpecScan == InitScan /\ [][NextScan]_vars

\* C8 as claimed: every top-level key of the document is in at least one of
\* team_fields and personal_fields, and every key but permissions in only one.
C8_ClassificationTotal ==
    pc = "scanned" =>
        \A k \in DOMAIN raw :
            /\ k \in DOMAIN team_fields \/ k \in DOMAIN personal_fields
            /\ k # "permissions"
                => ~(k \in DOMAIN team_fields /\ k \in DOMAIN personal_fields)

\* C8 amended: every top-level key but permissions is in exactly one of the
\* two buckets; permissions is in team_fields, holding allow only, exactly
\* when it has allow, and in personal_fields, holding deny and ask only,
\* exactly when it has deny or ask, so that a permissions object with none of
\* the three is in neither bucket. The buckets hold no key the document lacks.
C8_ClassificationTotalButPermissions ==
    pc = "scanned" =>
        /\ (DOMAIN team_fields) \cup (DOMAIN personal_fields) \subseteq DOMAIN raw
        /\ \A k \in (DOMAIN raw) \ {"permissions"} :
                (k \in DOMAIN team_fields) # (k \in DOMAIN personal_fields)
        /\ "permissions" \in DOMAIN raw =>
            LET subkeys == DOMAIN raw["permissions"]
            IN  /\ "permissions" \in DOMAIN team_fields <=> "allow" \in subkeys
                /\ "permissions" \in DOMAIN team_fields
                    => DOMAIN team_fields["permissions"] = {"allow"}
                /\ "permissions" \in DOMAIN personal_fields
                    <=> subkeys \cap {"deny", "ask"} # {}
                /\ "permissions" \in DOMAIN personal_fields
                    => DOMAIN personal_fields["permissions"]
                            = subkeys \cap {"deny", "ask"}

\* C8 witness: a scanned document with team keys, personal keys, an unknown
\* key, and a permissions object that went to both buckets.
C8_Witness ==
    /\ pc = "scanned"
    /\ {"model", "enabledPlugins", "feedbackSurveyState", "customKey", "permissions"}
            \subseteq DOMAIN raw
    /\ "permissions" \in DOMAIN team_fields
    /\ "permissions" \in DOMAIN personal_fields
    /\ "customKey" \in DOMAIN personal_fields

----------------------------------------------------------------------------
(* Template substitution: create_config.py apply_reverse_templates and       *)
(* merge.py resolve_templates. Both work on the JSON text of the document,   *)
(* so here a string is a sequence of characters and a document (a dict of    *)
(* strings, in insertion order) is a sequence of <<key, value>> pairs.       *)

\* str(Path.home()), here "/u"
HomeDir == <<"/", "u">>

\* the text {{HOME}}
Placeholder == <<"{", "{", "H", "O", "M", "E", "}", "}">>

\* what a failed json.loads stands for (the parse raises JSONDecodeError)
JSONDecodeError ==
    << << <<"J", "S", "O", "N", "D", "e", "c", "o", "d", "e", "E", "r", "r", "o", "r">>,
          <<>> >> >>

\* json.dumps escapes a quote and a backslash inside a string
RECURSIVE Escape(_)
Escape(str) ==
    IF str = <<>> THEN <<>>
    ELSE (IF Head(str) \in {"\"", "\\"} THEN <<"\\", Head(str)>> ELSE <<Head(str)>>)
            \o Escape(Tail(str))

Quote(str) == <<"\"">> \o Escape(str) \o <<"\"">>

RECURSIVE DumpItems(_)
DumpItems(items) ==
    IF items = <<>> THEN <<>>
    ELSE Quote(items[1][1]) \o <<":", " ">> \o Quote(items[1][2])
            \o (IF Len(items) > 1 THEN <<",", " ">> ELSE <<>>)
            \o DumpItems(Tail(items))

\* json.dumps(document): {"key": "value", "key": "value"}
Dumps(items) == <<"{">> \o DumpItems(items) \o <<"}">>

\* the characters of a JSON string whose opening quote is before position i:
\* [ok, str, next], next the position after the closing quote
RECURSIVE ReadString(_, _, _)
ReadString(text, i, acc) ==
    IF i > Len(text) THEN [ok |-> FALSE, str |-> acc, next |-> i]
    ELSE IF text[i] = "\"" THEN [ok |-> TRUE, str |-> acc, next |-> i + 1]
    ELSE IF text[i] = "\\"
    THEN IF i + 1 <= Len(text) /\ text[i + 1] \in {"\"", "\\"}
         THEN ReadString(text, i + 2, Append(acc, text[i + 1]))
         ELSE [ok |-> FALSE, str |-> acc, next |-> i]
    ELSE ReadString(text, i + 1, Append(acc, text[i]))

ParseString(text, i) ==
    IF i <= Len(text) /\ text[i] = "\""
    THEN ReadString(text, i + 1, <<>>)
    ELSE [ok |-> FALSE, str |-> <<>>, next |-> i]

\* text[i .. i + Len(word) - 1] = word
At(text, i, word) ==
    /\ i + Len(word) - 1 <= Len(text)
    /\ SubSeq(text, i, i + Len(word) - 1) = word

\* result[key] = value on a dict in insertion order: a key already there
\* keeps its place and takes the new value
SetItem(items, key, value) ==
    IF \E n \in 1..Len(items) : items[n][1] = key
    THEN [n \in 1..Len(items) |->
            IF items[n][1] = key THEN <<key, value>> ELSE items[n]]
    ELSE Append(items, <<key, value>>)

\* the members of a JSON object from position i on
RECURSIVE ParseItems(_, _, _)
ParseItems(text, i, acc) ==
    LET key == ParseString(text, i)
        value == ParseString(text, key.next + 2)
        items == SetItem(acc, key.str, value.str)
    IN  IF ~key.ok \/ ~At(text, key.next, <<":", " ">>) \/ ~value.ok
        THEN JSONDecodeError
        ELSE IF At(text, value.next, <<"}">>) /\ value.next = Len(text)
        THEN items
        ELSE IF At(text, value.next, <<",", " ">>)
        THEN ParseItems(text, value.next + 2, items)
        ELSE JSONDecodeError

\* json.loads(text) for an object of strings
Loads(text) ==
    IF text = <<"{", "}">> THEN <<>>
    ELSE IF At(text, 1, <<"{">>) THEN ParseItems(text, 2, <<>>)
    ELSE JSONDecodeError

\* A plausible slip: str.replace(old, new, 1), only the first occurrence
replace_first(str, old, new) ==
    IF \E i \in 1..Len(str) : At(str, i, old)
    THEN LET i == CHOOSE n \in 1..Len(str) :
                    At(str, n, old) /\ \A m \in 1..(n - 1) : ~At(str, m, old)
         IN  SubSeq(str, 1, i - 1) \o new \o SubSeq(str, i + Len(old), Len(str))
    ELSE str

\* str.replace(old, new): every occurrence, left to right, without overlap
RECURSIVE Replace(_, _, _)
Replace(str, old, new) ==
    IF Len(str) < Len(old) THEN str
    ELSE IF At(str, 1, old)
    THEN new \o Replace(SubSeq(str, Len(old) + 1, Len(str)), old, new)
    ELSE <<Head(str)>> \o Replace(Tail(str), old, new)

\* create_config.py
apply_reverse_templates(items, home) ==
    Loads(Replace(Dumps(items), home, Placeholder))

\* A plausible slip in resolve_templates: only the first {{HOME}} is replaced.
resolve_templates_first_only(settings, home) ==
    Loads(replace_first(Dumps(settings), Placeholder, home))

\* merge.py
resolve_templates(settings, home) ==
    Loads(Replace(Dumps(settings), Placeholder, home))

\* the dict an item list stands for (dict equality ignores the order)
AsDict(items) ==
    [k \in {items[n][1] : n \in 1..Len(items)} |->
        items[CHOOSE n \in 1..Len(items) : items[n][1] = k][2]]

----------------------------------------------------------------------------
(* The documents the substitution is run on *)

\* the number of pieces the longest value is made of
MaxPieces == 3

\* what a value is made of: the home path, the placeholder, a path
\* component, a letter (which continues the last component) and a quote
Pieces == {HomeDir, Placeholder, <<"/", "x">>, <<"x">>, <<"\"">>}

RECURSIVE Flatten(_)
Flatten(seqs) == IF seqs = <<>> THEN <<>> ELSE Head(seqs) \o Flatten(Tail(seqs))

\* the strings of at most n pieces
StringsOf(n) == {Flatten(ps) : ps \in SeqsUpTo(Pieces, n)}

\* one item under the key cmd and at most one more, whose key may itself
\* hold the home path
TemplateDocs ==
    {<< << <<"c", "m", "d">>, v >> >> : v \in StringsOf(MaxPieces)}
    \cup
    {<< << <<"c", "m", "d">>, v >>, <<k, w>> >> :
        v \in StringsOf(MaxPieces),
        k \in {<<"p">>, HomeDir \o <<"/", "k">>},
        w \in StringsOf(1)}

InitTemplates ==
    /\ pc = "loaded"
    /\ data \in TemplateDocs
    /\ templated = <<>>
    /\ resolved = <<>>
    /\ MergeIdle
    /\ ScanIdle
    /\ PlanIdle
    /\ InstallIdle
    /\ SourcesIdle
    /\ VersionIdle
    /\ RestoreIdle
    /\ FetchIdle

\* the author's side: the home path becomes {{HOME}}
ApplyReverseTemplates ==
    /\ pc = "loaded"
    /\ templated' = apply_reverse_templates(data, HomeDir)
    /\ pc' = "templated"
    /\ UNCHANGED <<data, resolved, mergeVars, scanVars, planVars, installVars, sourceVars,
                   versionVars, restoreVars, fetchVars>>

\* the installing side: {{HOME}} becomes the home path
ResolveTemplates ==
    /\ pc = "templated"
    /\ resolved' = resolve_templates(templated, HomeDir)
    /\ pc' = "resolved"
    /\ UNCHANGED <<data, templated, mergeVars, scanVars, planVars, installVars, sourceVars,
                   versionVars, restoreVars, fetchVars>>

NextTemplates == ApplyReverseTemplates \/ ResolveTemplates

SpecTemplates == InitTemplates /\ [][NextTemplates]_vars

\* the positions at which word occurs in str
Occurrences(str, word) == {i \in 1..Len(str) : At(str, i, word)}

\* every occurrence of the home path in str is a whole path: the string ends
\* after it or a path separator follows
WholePathOnly(str) ==
    \A i \in Occurrences(str, HomeDir) :
        \/ i + Len(HomeDir) - 1 = Len(str)
        \/ str[i + Len(HomeDir)] = "/"

\* the keys and values of a document
StringsIn(items) == {items[n][1] : n \in 1..Len(items)} \cup {items[n][2] : n \in 1..Len(items)}

\* C9 as claimed: for a document that holds the home path as whole paths
\* only, the reverse substitution followed by the forward one gives the
\* document back.
C9_TemplateRoundTrip ==
    (pc = "resolved" /\ \A str \in StringsIn(data) : WholePathOnly(str))
    => AsDict(resolved) = AsDict(data)

\* C9 amended: for a document that holds the home path as whole paths only
\* and nowhere holds the text {{HOME}}, the reverse substitution followed by
\* the forward one gives the document back.
C9_TemplateRoundTripNoPlaceholder ==
    (pc = "resolved"
        /\ \A str \in StringsIn(data) :
                WholePathOnly(str) /\ Occurrences(str, Placeholder) = {})
    => AsDict(resolved) = AsDict(data)

\* C9 witness: a document with the home path twice in a value and once in a
\* key, as whole paths, went to {{HOME}} and back.
C9_Witness ==
    /\ pc = "resolved"
    /\ Len(data) = 2
    /\ data[1][2] = HomeDir \o <<"/", "x">> \o HomeDir
    /\ data[2][1] = HomeDir \o <<"/", "k">>
    /\ templated[1][2] = Placeholder \o <<"/", "x">> \o Placeholder
    /\ templated[2][1] = Placeholder \o <<"/", "k">>
    /\ AsDict(resolved) = AsDict(data)

----------------------------------------------------------------------------
(* categories.py and installer.py: the registry and the install planner.    *)
(* A path is the sequence of its components; a file is its bytes and        *)
(* whether this process may read it.                                        *)

NoFile == [exists |-> FALSE, bytes |-> "", readable |-> FALSE]

File(bytes, readable) == [exists |-> TRUE, bytes |-> bytes, readable |-> readable]

\* Installer.target_dir, ~/.claude
TargetDir == <<"home", ".claude">>

\* Path.parent
Parent(path) == SubSeq(path, 1, Len(path) - 1)

FileEntry(src, dest, merge, executable, template) ==
    [src |-> src, dest |-> dest, merge |-> merge, executable |-> executable,
     template |-> template]

\* the manifest: the categories in the order manifest.json lists them. The
\* flags of an entry and the target_dir of a category are the manifest
\* author's: statusline.sh is a script with {{HOME}} in it, and the scripts
\* category is installed beside ~/.claude, in ~/bin.
Manifest ==
    << [name |-> "core", target_dir |-> <<".claude">>, install_type |-> "merge",
        files |-> << FileEntry(<<"core", "CLAUDE.md">>, <<"CLAUDE.md">>,
                               FALSE, FALSE, FALSE),
                     FileEntry(<<"core", "settings.json">>, <<"settings.json">>,
                               TRUE, FALSE, TRUE),
                     FileEntry(<<"core", "statusline.sh">>, <<"statusline.sh">>,
                               FALSE, TRUE, TRUE) >>],
       [name |-> "agents", target_dir |-> <<".claude", "agents">>,
        install_type |-> "overwrite",
        files |-> << FileEntry(<<"agents", "reviewer.md">>, <<"reviewer.md">>,
                               FALSE, FALSE, FALSE) >>],
       [name |-> "plugins", target_dir |-> <<".claude", "plugins">>,
        install_type |-> "check",
        files |-> << FileEntry(<<"plugins", "required.json">>, <<"required.json">>,
                               FALSE, FALSE, FALSE) >>],
       [name |-> "scripts", target_dir |-> <<"bin">>, install_type |-> "overwrite",
        files |-> << FileEntry(<<"scripts", "tool.sh">>, <<"tool.sh">>,
                               FALSE, TRUE, FALSE) >>] >>

\* CategoryRegistry.categories after _load_manifest: name -> Category
RegistryCategories ==
    [name \in {Manifest[i].name : i \in 1..Len(Manifest)} |->
        Manifest[CHOOSE i \in 1..Len(Manifest) : Manifest[i].name = name]]

\* A plausible slip in get_by_names: the list ends at the first unknown name.
RECURSIVE get_by_names_stops_at_unknown(_)
get_by_names_stops_at_unknown(names) ==
    IF names = <<>> THEN <<>>
    ELSE IF Head(names) \in DOMAIN RegistryCategories
    THEN <<RegistryCategories[Head(names)]>> \o get_by_names_stops_at_unknown(Tail(names))
    ELSE <<>>

\* [self.categories[name] for name in names if name in self.categories]
RECURSIVE get_by_names(_)
get_by_names(names) ==
    IF names = <<>> THEN <<>>
    ELSE (IF Head(names) \in DOMAIN RegistryCategories
          THEN <<RegistryCategories[Head(names)]>> ELSE <<>>)
            \o get_by_names(Tail(names))

\* target_base of a category
TargetBase(category) ==
    IF category.target_dir = <<".claude">>
    THEN TargetDir
    ELSE Parent(TargetDir) \o category.target_dir

\* Path.exists()
Exists(files, path) == path \in DOMAIN files /\ files[path].exists

\* Installer._files_differ
_files_differ(src, dest) ==
    IF ~Exists(config_files, src) \/ ~Exists(target_files, dest) THEN TRUE
    ELSE IF config_files[src].readable /\ target_files[dest].readable
    THEN config_files[src].bytes # target_files[dest].bytes
    ELSE TRUE   \* except (IOError, PermissionError)

\* plan[status].append(row)
PlanAppend(p, status, row) == [p EXCEPT ![status] = Append(@, row)]

\* A plausible slip in compute_plan: the existence test comes before the
\* merge flag, so a merge-flagged file that is not there yet is New.
plan_entry_exists_first(p, file_entry, target_base) ==
    LET src_path == file_entry.src
        dest_path == target_base \o file_entry.dest
    IN  IF ~Exists(target_files, dest_path)
        THEN PlanAppend(p, "New", <<dest_path, "Copy">>)
        ELSE IF file_entry.merge
        THEN PlanAppend(p, "Merge", <<dest_path, "Smart merge">>)
        ELSE IF _files_differ(src_path, dest_path)
        THEN PlanAppend(p, "Updated", <<dest_path, "Overwrite">>)
        ELSE PlanAppend(p, "Unchanged", <<dest_path, "Skip">>)

\* the body of `for file_entry in category.files`
PlanEntry(p, file_entry, target_base) ==
    LET src_path == file_entry.src
        dest_path == target_base \o file_entry.dest
    IN  IF file_entry.merge
        THEN PlanAppend(p, "Merge", <<dest_path, "Smart merge">>)
        ELSE IF ~Exists(target_files, dest_path)
        THEN PlanAppend(p, "New", <<dest_path, "Copy">>)
        ELSE IF _files_differ(src_path, dest_path)
        THEN PlanAppend(p, "Updated", <<dest_path, "Overwrite">>)
        ELSE PlanAppend(p, "Unchanged", <<dest_path, "Skip">>)

RECURSIVE PlanEntries(_, _, _)
PlanEntries(p, files, target_base) ==
    IF files = <<>> THEN p
    ELSE PlanEntries(PlanEntry(p, Head(files), target_base), Tail(files), target_base)

\* the loop `for category in selected_categories`
RECURSIVE PlanCategories(_, _)
PlanCategories(p, selected_categories) ==
    IF selected_categories = <<>> THEN p
    ELSE PlanCategories(
            PlanEntries(p, Head(selected_categories).files,
                        TargetBase(Head(selected_categories))),
            Tail(selected_categories))

\* Installer.compute_plan
compute_plan(names) ==
    PlanCategories([New |-> <<>>, Updated |-> <<>>, Unchanged |-> <<>>, Merge |-> <<>>],
                   get_by_names(names))

----------------------------------------------------------------------------
(* The trees and requests the planner is run on *)

\* the longest list of category names asked for
MaxNames == 2

\* the names a request is made of: the manifest's and one it does not have
RequestNames == {"core", "agents", "plugins", "nonexistent"}

SrcPaths == UNION {{Manifest[i].files[j].src : j \in 1..Len(Manifest[i].files)} :
                        i \in 1..Len(Manifest)}

DestPaths == UNION {{TargetBase(Manifest[i]) \o Manifest[i].files[j].dest :
                        j \in 1..Len(Manifest[i].files)} : i \in 1..Len(Manifest)}

\* a source file is there with the team's bytes; two of them may be missing,
\* one of them unreadable
SourceStates(path) ==
    {File("team", TRUE)}
    \cup (IF path \in {<<"core", "CLAUDE.md">>, <<"agents", "reviewer.md">>}
          THEN {NoFile} ELSE {})
    \cup (IF path = <<"core", "CLAUDE.md">> THEN {File("team", FALSE)} ELSE {})

\* a target file is absent, holds the team's bytes or the user's, or holds
\* the team's bytes and cannot be read
TargetStates(path) ==
    {NoFile, File("team", TRUE)}
    \cup (IF path # Parent(TargetDir) \o <<".claude", "plugins", "required.json">>
          THEN {File("user", TRUE)} ELSE {})
    \cup (IF path \in {TargetDir \o <<"CLAUDE.md">>, TargetDir \o <<"statusline.sh">>,
                       TargetDir \o <<"agents", "reviewer.md">>}
          THEN {File("team", FALSE)} ELSE {})

InitPlan ==
    /\ pc = "loaded"
    /\ config_files \in {f \in [SrcPaths -> {NoFile, File("team", TRUE), File("team", FALSE)}] :
                            \A path \in SrcPaths : f[path] \in SourceStates(path)}
    /\ target_files \in {f \in [DestPaths -> {NoFile, File("team", TRUE), File("user", TRUE),
                                              File("team", FALSE)}] :
                            \A path \in DestPaths : f[path] \in TargetStates(path)}
    /\ categories \in SeqsUpTo(RequestNames, MaxNames)
    /\ plan = EmptyDict
    /\ MergeIdle
    /\ ScanIdle
    /\ TemplateIdle
    /\ InstallIdle
    /\ SourcesIdle
    /\ VersionIdle
    /\ RestoreIdle
    /\ FetchIdle

\* A plausible slip in compute_plan: it makes sure of the target directory,
\* as preflight_check does, before it scans.
compute_plan_makes_target_dir ==
    /\ pc = "loaded"
    /\ plan' = compute_plan(categories)
    /\ target_dirs' = target_dirs \cup {TargetDir}
    /\ pc' = "planned"
    /\ UNCHANGED <<config_files, target_files, categories, mergeVars, scanVars,
                   templateVars, plan_again, target_writable, backups, stamp, now,
                   outcome, first_outcome, before, sourceVars,
                   versionVars, restoreVars, fetchVars>>

\* plan = compute_plan(categories): the scan reads the two trees and writes
\* nothing
ComputePlan ==
    /\ pc = "loaded"
    /\ plan' = compute_plan(categories)
    /\ pc' = "planned"
    /\ UNCHANGED <<config_files, target_files, categories, mergeVars, scanVars,
                   templateVars, installVars, sourceVars,
                   versionVars, restoreVars, fetchVars>>

NextPlan == ComputePlan

SpecPlan == InitPlan /\ [][NextPlan]_vars

----------------------------------------------------------------------------
(* Claims about compute_plan, checked under SpecPlan *)

Buckets == {"New", "Updated", "Unchanged", "Merge"}

\* the target paths listed under a bucket of the plan
BucketPaths(status) == {plan[status][i][1] : i \in 1..Len(plan[status])}

\* the positions of the request that name a category of the registry, and
\* with them the file entries compute_plan has to place
SelectedPositions == {i \in 1..Len(categories) : categories[i] \in DOMAIN RegistryCategories}

EntriesOf(name) == RegistryCategories[name].files

RECURSIVE SumOver(_, _)
SumOver(positions, f) ==
    IF positions = {} THEN 0
    ELSE LET i == CHOOSE n \in positions : TRUE
         IN  f[i] + SumOver(positions \ {i}, f)

SelectedEntryCount ==
    SumOver(SelectedPositions,
            [i \in SelectedPositions |-> Len(EntriesOf(categories[i]))])

PlanRowCount ==
    Len(plan["New"]) + Len(plan["Updated"]) + Len(plan["Unchanged"]) + Len(plan["Merge"])

\* the bucket the claimed rule gives an entry: Merge for a merge entry, else
\* New for an absent target, else Updated when the bytes differ (a missing
\* source has no bytes to agree with), else Unchanged
ClaimedBucket(entry, dest_path) ==
    IF entry.merge THEN "Merge"
    ELSE IF ~target_files[dest_path].exists THEN "New"
    ELSE IF ~config_files[entry.src].exists
            \/ config_files[entry.src].bytes # target_files[dest_path].bytes
    THEN "Updated"
    ELSE "Unchanged"

\* the same rule, with Updated also for a source or target that is there but
\* cannot be read
AmendedBucket(entry, dest_path) ==
    IF entry.merge THEN "Merge"
    ELSE IF ~target_files[dest_path].exists THEN "New"
    ELSE IF ~config_files[entry.src].exists
            \/ ~config_files[entry.src].readable
            \/ ~target_files[dest_path].readable
            \/ config_files[entry.src].bytes # target_files[dest_path].bytes
    THEN "Updated"
    ELSE "Unchanged"

\* C10 as claimed: every file entry of every selected category is in exactly
\* one bucket: Merge if merge-flagged, else New if the target is absent, else
\* Updated if the target's bytes differ from the source's, else Unchanged.
C10_PlanBuckets ==
    pc = "planned" =>
        /\ PlanRowCount = SelectedEntryCount
        /\ \A i \in SelectedPositions :
            \A j \in 1..Len(EntriesOf(categories[i])) :
                LET entry == EntriesOf(categories[i])[j]
                    dest_path == TargetBase(RegistryCategories[categories[i]]) \o entry.dest
                IN  \A status \in Buckets :
                        dest_path \in BucketPaths(status)
                            <=> status = ClaimedBucket(entry, dest_path)

\* C10 amended: every file entry of every selected category is in exactly one
\* bucket: Merge if merge-flagged, else New if the target is absent, else
\* Updated if the source is missing, the source or the target cannot be read,
\* or the target's bytes differ from the source's, else Unchanged.
C10_PlanBucketsUnreadableUpdated ==
    pc = "planned" =>
        /\ PlanRowCount = SelectedEntryCount
        /\ \A i \in SelectedPositions :
            \A j \in 1..Len(EntriesOf(categories[i])) :
                LET entry == EntriesOf(categories[i])[j]
                    dest_path == TargetBase(RegistryCategories[categories[i]]) \o entry.dest
                IN  \A status \in Buckets :
                        dest_path \in BucketPaths(status)
                            <=> status = AmendedBucket(entry, dest_path)

\* C10 witness: a plan for core and agents that has an entry in each of the
\* four buckets, the Merge entry for a settings.json that is not there yet.
C10_Witness ==
    /\ pc = "planned"
    /\ categories = <<"core", "agents">>
    /\ ~target_files[TargetDir \o <<"settings.json">>].exists
    /\ plan["Merge"] = << <<TargetDir \o <<"settings.json">>, "Smart merge">> >>
    /\ plan["New"] = << <<TargetDir \o <<"CLAUDE.md">>, "Copy">> >>
    /\ plan["Updated"] = << <<TargetDir \o <<"statusline.sh">>, "Overwrite">> >>
    /\ plan["Unchanged"] = << <<TargetDir \o <<"agents", "reviewer.md">>, "Skip">> >>

----------------------------------------------------------------------------
(* installer.py, backup.py and version.py: the install. Here the bytes of a  *)
(* plain file are the characters of its text, the bytes of a settings file   *)
(* are the document its JSON text stands for, and a file has a mode.         *)

\* a file that is there: its bytes, whether this process may open it, and
\* whether its execute bits are set
ModeFile(bytes, readable, executable) ==
    [exists |-> TRUE, bytes |-> bytes, readable |-> readable,
     executable |-> executable]

\* the bytes of a settings file that json.load rejects
MalformedJSON == [not_json |-> "{"]

\* the directories mkdir(parents=True) makes sure of: the path and the ones above
Dirs(path) == {SubSeq(path, 1, n) : n \in 1..Len(path)}

\* path.relative_to(dir) raises ValueError unless path is under dir
IsUnder(path, dir) == Len(path) > Len(dir) /\ SubSeq(path, 1, Len(dir)) = dir

RelativeTo(path, dir) == SubSeq(path, Len(dir) + 1, Len(path))

\* the key statusLine as json.dumps writes it
StatusLineKey == <<"s", "t", "a", "t", "u", "s", "L", "i", "n", "e">>

\* the members whose value this part holds as characters
TextKeys == {"statusLine", "notes"}

\* resolve_templates on a settings document: the replace runs over the JSON
\* text, where {{HOME}} can only lie inside a string, so each member that
\* is text goes through it and the others come back as they are
ResolveSettings(settings, home) ==
    [k \in DOMAIN settings |->
        IF k \in TextKeys
        THEN AsDict(resolve_templates(<< <<StatusLineKey, settings[k]>> >>,
                                      home))[StatusLineKey]
        ELSE settings[k]]

\* merge.py load_settings: the document, or the error open or json.load raises
load_settings(files, path) ==
    IF ~Exists(files, path) THEN [error |-> "none", settings |-> EmptyDict]
    ELSE IF ~files[path].readable
    THEN [error |-> "PermissionError", settings |-> EmptyDict]
    ELSE IF files[path].bytes = MalformedJSON
    THEN [error |-> "JSONDecodeError", settings |-> EmptyDict]
    ELSE [error |-> "none", settings |-> files[path].bytes]

\* Installer._files_differ on the target files as they are within an install
FilesDifferIn(files, src, dest) ==
    IF ~Exists(config_files, src) \/ ~Exists(files, dest) THEN TRUE
    ELSE IF config_files[src].readable /\ files[dest].readable
    THEN config_files[src].bytes # files[dest].bytes
    ELSE TRUE

\* Installer._apply_templates
_apply_templates(content) == Replace(content, Placeholder, HomeDir)

\* Installer.install_file. st is the install so far: the target files and
\* directories, the error raised if any, the status of the latest entry.
\* copy2 gives the target the source's bytes and mode; it raises
\* PermissionError when it may not open the source or the target.
install_file(st, entry, target_base) ==
    LET src_path == entry.src
        dest_path == target_base \o entry.dest
        src == config_files[src_path]
        status == IF Exists(st.files, dest_path) THEN "updated" ELSE "installed"
        made == [st EXCEPT !.dirs = @ \cup Dirs(Parent(dest_path))]
        content == IF entry.template THEN _apply_templates(src.bytes) ELSE src.bytes
    IN  IF ~Exists(config_files, src_path)
        THEN [st EXCEPT !.error = "InstallationError"]
        ELSE IF Exists(st.files, dest_path)
                /\ ~FilesDifferIn(st.files, src_path, dest_path)
        THEN [st EXCEPT !.status = "unchanged"]
        ELSE IF ~src.readable
                \/ (Exists(st.files, dest_path) /\ ~st.files[dest_path].readable)
        THEN [made EXCEPT !.error = "PermissionError"]
        ELSE [made EXCEPT
                !.files = Put(@, dest_path,
                              ModeFile(content, TRUE,
                                       src.executable \/ entry.executable)),
                !.status = status]

\* Installer._merge_settings_file with save_settings
_merge_settings_file(st, entry, target_base) ==
    LET src_path == entry.src
        dest_path == target_base \o entry.dest
        source_doc == load_settings(config_files, src_path)
        target_doc == IF Exists(st.files, dest_path)
                      THEN load_settings(st.files, dest_path)
                      ELSE [error |-> "none", settings |-> EmptyDict]
        merged_doc == IF target_doc.settings # EmptyDict
                      THEN merge_settings(source_doc.settings, target_doc.settings)
                      ELSE source_doc.settings   \* use source as-is
        executable == Exists(st.files, dest_path) /\ st.files[dest_path].executable
    IN  IF source_doc.error # "none" THEN [st EXCEPT !.error = source_doc.error]
        ELSE IF target_doc.error # "none" THEN [st EXCEPT !.error = target_doc.error]
        ELSE [st EXCEPT
                !.dirs = @ \cup Dirs(Parent(dest_path)),
                !.files = Put(@, dest_path,
                              ModeFile(ResolveSettings(merged_doc, HomeDir), TRUE,
                                       executable)),
                !.status = "merged"]

\* F(v), v being worked out once, as a statement does before the next runs
Then(v, F(_)) == CHOOSE r \in {F(x) : x \in {v}} : TRUE

\* the body of `for file_entry in category.files` in install, with the
\* statistics: an error ends the install where it is
InstallEntry(st, entry, target_base) ==
    IF st.error # "none" THEN st
    ELSE IF entry.merge
    THEN LET done == _merge_settings_file(st, entry, target_base)
         IN  IF done.error # "none" THEN done ELSE [done EXCEPT !.merged = TRUE]
    ELSE LET done == install_file(st, entry, target_base)
         IN  IF done.error # "none" THEN done
             ELSE IF done.status = "installed"
             THEN [done EXCEPT !.installed = @ + 1]
             ELSE IF done.status = "updated"
             THEN [done EXCEPT !.updated = @ + 1]
             ELSE [done EXCEPT !.unchanged = @ + 1]

RECURSIVE InstallEntries(_, _, _)
InstallEntries(st, files, target_base) ==
    IF files = <<>> THEN st
    ELSE Then(InstallEntry(st, Head(files), target_base),
              LAMBDA done : InstallEntries(done, Tail(files), target_base))

\* the loop `for category in selected_categories` in install
RECURSIVE InstallCategories(_, _)
InstallCategories(st, selected_categories) ==
    IF selected_categories = <<>> THEN st
    ELSE Then(InstallEntries(st, Head(selected_categories).files,
                             TargetBase(Head(selected_categories))),
              LAMBDA done : InstallCategories(done, Tail(selected_categories)))

\* BackupManager.claude_dir: the managers are made for the install target
ClaudeDir == TargetDir

\* the directory name create_backup derives from the clock: strftime with
\* %Y-%m-%d-%H%M%S, so one name for each second
BackupName(t) == <<"claude-setup", t>>

\* the body of `for file_path in files` in create_backup. bk is the backup
\* directory so far: its files by relative path, the list for the manifest,
\* the error copy2 raised if any.
BackupFile(bk, files, file_path) ==
    IF bk.error # "none" THEN bk
    ELSE IF ~Exists(files, file_path) THEN bk
    ELSE IF ~IsUnder(file_path, ClaudeDir) THEN bk   \* except ValueError: continue
    ELSE IF ~files[file_path].readable THEN [bk EXCEPT !.error = "PermissionError"]
    ELSE [bk EXCEPT
            !.files = Put(@, RelativeTo(file_path, ClaudeDir), files[file_path]),
            !.listed = Append(@, RelativeTo(file_path, ClaudeDir))]

RECURSIVE BackupFiles(_, _, _)
BackupFiles(bk, files, paths) ==
    IF paths = <<>> THEN bk
    ELSE Then(BackupFile(bk, files, Head(paths)),
              LAMBDA done : BackupFiles(done, files, Tail(paths)))

\* BackupManager.create_backup at clock t: the backup directories after it,
\* the path returned, the error raised if any. mkdir(exist_ok=True) takes a
\* directory of that name that is there already; the manifest is written
\* last, over the one that is there.
create_backup(dirs, files, paths, names, t) ==
    LET name == BackupName(t)
        found == IF name \in DOMAIN dirs THEN dirs[name]
                 ELSE [files |-> EmptyDict, manifest |-> EmptyDict]
        bk == BackupFiles([files |-> found.files, listed |-> <<>>, error |-> "none"],
                          files, paths)
        manifest == [created_at |-> t, categories |-> names, files |-> bk.listed,
                     tool_version |-> "1.0.0"]
    IN  IF bk.error # "none"
        THEN [dirs |-> Put(dirs, name, [files |-> bk.files, manifest |-> found.manifest]),
              path |-> name, error |-> bk.error]
        ELSE [dirs |-> Put(dirs, name, [files |-> bk.files, manifest |-> manifest]),
              path |-> name, error |-> "none"]

\* the files a source tree may hold, as sorted(config_dir.rglob("*")) puts
\* them: by their parts, in code point order
SortedSources ==
    << <<".h">>, <<"agents", "reviewer.md">>, <<"core", "CLAUDE.md">>,
       <<"core", "settings.json">>, <<"core", "statusline.sh">>,
       <<"plugins", "required.json">>, <<"scripts", "tool.sh">>, <<"x">>, <<"y">> >>

\* file_path.name.startswith(".")
Hidden(path) == path[Len(path)] \in {".h"}

\* str(file_path.relative_to(config_dir)): the parts with "/" between them;
\* a part counts for one character
RECURSIVE PathText(_)
PathText(path) ==
    IF Len(path) = 1 THEN path ELSE <<Head(path), "/">> \o PathText(Tail(path))

\* f.read(): the bytes of a file as a run of characters; the document of a
\* settings file counts for one
FileBytes(path, file) ==
    IF path = <<"core", "settings.json">> THEN <<file.bytes>> ELSE file.bytes

\* what the hasher is fed from the i-th file on: for each file that is not
\* hidden its relative path, then its bytes when they can be read, with
\* nothing in between
RECURSIVE HashedFrom(_, _)
HashedFrom(files, i) ==
    IF i > Len(SortedSources) THEN <<>>
    ELSE LET path == SortedSources[i]
         IN  (IF Exists(files, path) /\ ~Hidden(path)
              THEN PathText(path)
                     \o (IF files[path].readable THEN FileBytes(path, files[path])
                         ELSE <<>>)
              ELSE <<>>) \o HashedFrom(files, i + 1)

\* sha256 of what was fed: two trees have the same digest when they feed
\* the hasher the same bytes
ConfigHash(files) == HashedFrom(files, 1)

\* VersionManager._compute_config_hash
_compute_config_hash == ConfigHash(config_files)

\* VersionManager.write_stamp at clock t: the document written
write_stamp(names, t) ==
    [tool_version |-> "1.0.0", config_hash |-> _compute_config_hash,
     installed_at |-> t, categories |-> names]

\* the target paths of two buckets of a plan, in the order install lists them
PlanPaths(p, status) == [i \in 1..Len(p[status]) |-> p[status][i][1]]

\* what install leaves behind and gives back. error is "none" for a return
\* and the kind of the exception for a raise; the other fields of returned
\* are the dict returned.
Installed(files, dirs, bdirs, stampdoc, error, dry, stats, names, path, p) ==
    [files |-> files, dirs |-> dirs, backups |-> bdirs, stamp |-> stampdoc,
     returned |-> [error |-> error, dry_run |-> dry, stats |-> stats,
                   categories |-> names, backup_path |-> path, plan |-> p]]

\* None, where a backup path may stand
None == <<"None">>

NoStats == [installed |-> 0, updated |-> 0, unchanged |-> 0, merged |-> FALSE]

\* what install does once the plan p is there
InstallPlanned(names, dry, t, p) ==
    LET dirs == target_dirs \cup Dirs(TargetDir)     \* preflight_check: mkdir
        files_to_backup == PlanPaths(p, "Updated") \o PlanPaths(p, "Merge")
        start == [files |-> target_files, dirs |-> dirs, error |-> "none",
                  status |-> "none", installed |-> 0, updated |-> 0,
                  unchanged |-> 0, merged |-> FALSE]
        stats(st) == [installed |-> st.installed, updated |-> st.updated,
                      unchanged |-> st.unchanged, merged |-> st.merged]
        Copy(backup) ==
            Then(InstallCategories(start, get_by_names(names)),
                 LAMBDA st :
                    IF st.error # "none"
                    THEN Installed(st.files, st.dirs, backup.dirs, stamp, st.error,
                                   FALSE, stats(st), names, backup.path, p)
                    ELSE Installed(st.files, st.dirs, backup.dirs,
                                   write_stamp(names, t), "none", FALSE, stats(st),
                                   names, backup.path, p))
    IN  IF TargetDir \in target_dirs /\ ~target_writable
        THEN Installed(target_files, target_dirs, backups, stamp,
                       "InstallationError", dry, NoStats, names, None, p)
        ELSE IF dry
        THEN Installed(target_files, dirs, backups, stamp, "none", TRUE,
                       NoStats, names, None, p)
        ELSE Then(IF files_to_backup # <<>>
                  THEN create_backup(backups, target_files, files_to_backup, names, t)
                  ELSE [dirs |-> backups, path |-> None, error |-> "none"],
                  LAMBDA backup :
                    IF backup.error # "none"
                    THEN Installed(target_files, dirs, backup.dirs, stamp,
                                   backup.error, FALSE, NoStats, names,
                                   backup.path, p)
                    ELSE Copy(backup))

\* Installer.install(names, dry_run=dry) at clock t
install(names, dry, t) ==
    Then(compute_plan(names), LAMBDA p : InstallPlanned(names, dry, t, p))

----------------------------------------------------------------------------
(* The trees, requests and clock the install is run on *)

\* the last second of the clock
MaxClock == 1

\* the names an install is asked for
InstallNames == {"core", "scripts", "nonexistent"}

TeamText == <<"t">>

UserText == <<"u">>

\* a script that names the home directory
TemplateText == <<"r", " ">> \o Placeholder \o <<"/", "s">>

\* the team's settings: one with an allow list in the author's order and a
\* status line under the home directory, one with neither
TeamSettings ==
    { [permissions |-> [allow |-> <<"Read", "Bash">>],
       statusLine |-> Placeholder \o <<"/", "s">>],
      [permissions |-> [allow |-> <<"Bash">>], model |-> "opus"] }

UserSettings ==
    { [permissions |-> [allow |-> <<"Write">>, deny |-> <<"Fetch">>],
       theme |-> "dark"] }

SourceTree(claude_md, settings, statusline) ==
    [path \in SrcPaths |->
        IF path = <<"core", "CLAUDE.md">> THEN claude_md
        ELSE IF path = <<"core", "settings.json">> THEN settings
        ELSE IF path = <<"core", "statusline.sh">> THEN statusline
        ELSE ModeFile(TeamText, TRUE, FALSE)]

TargetTree(claude_md, settings, statusline, tool) ==
    [path \in DestPaths |->
        IF path = TargetDir \o <<"CLAUDE.md">> THEN claude_md
        ELSE IF path = TargetDir \o <<"settings.json">> THEN settings
        ELSE IF path = TargetDir \o <<"statusline.sh">> THEN statusline
        ELSE IF path = Parent(TargetDir) \o <<"bin", "tool.sh">> THEN tool
        ELSE NoFile]

\* the source tree: CLAUDE.md may be missing or unreadable, settings.json
\* missing or malformed, statusline.sh with or without {{HOME}}
SourceTrees ==
    {SourceTree(claude_md, settings, statusline) :
        claude_md \in {ModeFile(TeamText, TRUE, FALSE), NoFile,
                       ModeFile(TeamText, FALSE, FALSE)},
        settings \in {ModeFile(d, TRUE, FALSE) : d \in TeamSettings}
                        \cup {NoFile, ModeFile(MalformedJSON, TRUE, FALSE)},
        statusline \in {ModeFile(TemplateText, TRUE, FALSE),
                        ModeFile(TeamText, TRUE, FALSE)}}

\* the target tree: each file absent or the user's; CLAUDE.md may also be
\* the team's already, or unreadable; settings.json may be {} or malformed
TargetTrees ==
    {TargetTree(claude_md, settings, statusline, tool) :
        claude_md \in {NoFile, ModeFile(TeamText, TRUE, FALSE),
                       ModeFile(UserText, TRUE, FALSE),
                       ModeFile(UserText, FALSE, FALSE)},
        settings \in {ModeFile(d, TRUE, FALSE) : d \in UserSettings}
                        \cup {NoFile, ModeFile(EmptyDict, TRUE, FALSE),
                              ModeFile(MalformedJSON, TRUE, FALSE)},
        statusline \in {NoFile, ModeFile(UserText, TRUE, FALSE)},
        tool \in {NoFile, ModeFile(UserText, TRUE, TRUE)}}

\* the directories a tree of files needs, with the home directory
DirsOf(files) ==
    {Parent(TargetDir)}
        \cup UNION {Dirs(Parent(path)) : path \in {q \in DOMAIN files : files[q].exists}}

\* the target side of the disk
Disk == [files |-> target_files, dirs |-> target_dirs, backups |-> backups,
         stamp |-> stamp]

\* Before the first install there is no backup and no stamp; ~/.claude may
\* be missing when it holds no file, and may be closed to writing when it
\* is there.
InitInstall ==
    /\ pc = "loaded"
    /\ config_files \in SourceTrees
    /\ target_files \in TargetTrees
    /\ categories \in SeqsUpTo(InstallNames, MaxNames)
    /\ plan = EmptyDict
    /\ plan_again = EmptyDict
    /\ target_dirs \in {DirsOf(target_files), DirsOf(target_files) \cup Dirs(TargetDir)}
    /\ target_writable \in (IF TargetDir \in target_dirs THEN BOOLEAN ELSE {TRUE})
    /\ backups = EmptyDict
    /\ stamp = EmptyDict
    /\ now = 0
    /\ outcome = EmptyDict
    /\ first_outcome = EmptyDict
    /\ before = EmptyDict
    /\ MergeIdle
    /\ ScanIdle
    /\ TemplateIdle
    /\ SourcesIdle
    /\ VersionIdle
    /\ RestoreIdle
    /\ FetchIdle

\* compute_plan called again, nothing having changed
ComputePlanAgain ==
    /\ pc = "planned"
    /\ plan_again' = compute_plan(categories)
    /\ pc' = "replanned"
    /\ UNCHANGED <<config_files, target_files, categories, plan, target_dirs,
                   target_writable, backups, stamp, now, outcome, first_outcome,
                   before, mergeVars, scanVars, templateVars, sourceVars,
                   versionVars, restoreVars, fetchVars>>

\* install(categories, dry_run=True)
DryRun ==
    /\ pc = "replanned"
    /\ \E done \in {install(categories, TRUE, now)} :
           /\ target_files' = done.files
           /\ target_dirs' = done.dirs
           /\ backups' = done.backups
           /\ stamp' = done.stamp
           /\ outcome' = done.returned
    /\ before' = Disk
    /\ pc' = "dry_run"
    /\ UNCHANGED <<config_files, categories, plan, plan_again, target_writable, now,
                   first_outcome, mergeVars, scanVars, templateVars, sourceVars,
                   versionVars, restoreVars, fetchVars>>

\* install(categories)
Install ==
    /\ pc = "replanned"
    /\ \E done \in {install(categories, FALSE, now)} :
           /\ target_files' = done.files
           /\ target_dirs' = done.dirs
           /\ backups' = done.backups
           /\ stamp' = done.stamp
           /\ outcome' = done.returned
           /\ stamped_files' = IF done.returned.error = "none" THEN config_files
                              ELSE stamped_files
           /\ first_outcome' = done.returned
    /\ before' = Disk
    /\ pc' = "installed"
    /\ UNCHANGED <<config_files, categories, plan, plan_again, target_writable, now,
                   mergeVars, scanVars, templateVars, sourceVars,
                   updates, edits, restoreVars, fetchVars>>

\* the clock moves on between two installs
Tick ==
    /\ pc = "installed"
    /\ now < MaxClock
    /\ now' = now + 1
    /\ UNCHANGED <<pc, planVars, plan_again, target_dirs, target_writable, backups,
                   stamp, outcome, first_outcome, before, mergeVars, scanVars,
                   templateVars, sourceVars,
                   versionVars, restoreVars, fetchVars>>

\* install(categories) once more: the same request, the source tree and the
\* target tree as the first install left them
InstallAgain ==
    /\ pc = "installed"
    /\ \E done \in {install(categories, FALSE, now)} :
           /\ target_files' = done.files
           /\ target_dirs' = done.dirs
           /\ backups' = done.backups
           /\ stamp' = done.stamp
           /\ outcome' = done.returned
           /\ stamped_files' = IF done.returned.error = "none" THEN config_files
                              ELSE stamped_files
    /\ before' = Disk
    /\ pc' = "reinstalled"
    /\ UNCHANGED <<config_files, categories, plan, plan_again, target_writable, now,
                   first_outcome, mergeVars, scanVars, templateVars, sourceVars,
                   updates, edits, restoreVars, fetchVars>>

NextInstall == ComputePlan \/ ComputePlanAgain \/ DryRun \/ Install \/ Tick
                    \/ InstallAgain

SpecInstall == InitInstall /\ [][NextInstall]_vars

----------------------------------------------------------------------------
(* Claims about the planner and the install, checked under SpecInstall *)

\* a step that is a call of compute_plan
PlanCall == pc' # pc /\ pc' \in {"planned", "replanned"}

SelectedEntries ==
    UNION {{[entry |-> EntriesOf(categories[i])[j],
             dest_path |-> TargetBase(RegistryCategories[categories[i]])
                                \o EntriesOf(categories[i])[j].dest] :
                j \in 1..Len(EntriesOf(categories[i]))} : i \in SelectedPositions}

\* C12 as claimed: after a successful install, nothing having changed, the
\* plan for the same names has no Updated and no New entry (every non-merge
\* entry, template-flagged or not, is Unchanged), and a second install
\* reports updated = 0.
C12_ReinstallIdempotent ==
    /\ (pc = "installed" /\ outcome.error = "none")
            => /\ compute_plan(categories)["Updated"] = <<>>
               /\ compute_plan(categories)["New"] = <<>>
    /\ (pc = "reinstalled" /\ first_outcome.error = "none" /\ outcome.error = "none")
            => outcome.stats.updated = 0

\* C13 as claimed: the second of two successful installs, nothing having
\* changed in between, leaves every merge-flagged target file with the
\* bytes the first install wrote.
C13_SecondInstallSameBytes ==
    (pc = "reinstalled" /\ first_outcome.error = "none" /\ outcome.error = "none")
        => \A e \in SelectedEntries :
                e.entry.merge
                    => target_files[e.dest_path].bytes = before.files[e.dest_path].bytes

\* the target paths an install backs up: the Updated and the Merge bucket
BackedUpPaths(p) ==
    SeqToSet(PlanPaths(p, "Updated")) \cup SeqToSet(PlanPaths(p, "Merge"))

\* where a backup directory keeps the copy of a target path
BackupKey(path) ==
    IF IsUnder(path, ClaudeDir) THEN RelativeTo(path, ClaudeDir) ELSE path

\* C14 as claimed: when an install whose plan has an Updated or a Merge
\* entry has written a target file, its backup directory is there and holds
\* a copy, with the bytes from before the install, of exactly the target
\* files of these two buckets that existed, wherever they lie.
C14_BackupPrecedesOverwrite ==
    (pc = "installed" /\ BackedUpPaths(outcome.plan) # {}
        /\ target_files # before.files)
        => /\ outcome.backup_path \in DOMAIN backups
           /\ LET kept == backups[outcome.backup_path].files
                  existing == {q \in BackedUpPaths(outcome.plan) : before.files[q].exists}
              IN  /\ DOMAIN kept = {BackupKey(q) : q \in existing}
                  /\ \A q \in existing : kept[BackupKey(q)] = before.files[q]

\* C15 as claimed: two create_backup calls, in the same second or not, get
\* two directories, and the second leaves the files and the manifest of the
\* first as they were.
C15_BackupsDistinct ==
    (pc = "reinstalled" /\ first_outcome.backup_path # None
        /\ outcome.backup_path # None)
        => /\ outcome.backup_path # first_outcome.backup_path
           /\ backups[first_outcome.backup_path]
                = before.backups[first_outcome.backup_path]

\* C16 as claimed: after a successful install the categories of the stamp
\* are exactly the requested names the registry has.
C16_StampNamesInstalled ==
    (pc \in {"installed", "reinstalled"} /\ outcome.error = "none")
        => SeqToSet(stamp.categories) = {categories[i] : i \in SelectedPositions}

\* C17 as claimed: an install ends with a return or an InstallationError,
\* never another kind of error; a selected entry whose source is missing
\* makes it end with an InstallationError; the backup a failed install made
\* is still there.
C17_FailuresAreInstallationErrors ==
    pc = "installed"
        => /\ outcome.error \in {"none", "InstallationError"}
           /\ (before.dirs # {} /\ \E e \in SelectedEntries :
                                        ~config_files[e.entry.src].exists)
                    => outcome.error = "InstallationError"
           /\ (outcome.error # "none" /\ outcome.backup_path # None)
                    => outcome.backup_path \in DOMAIN backups

\* C18 as claimed: install(categories, dry_run=True) leaves every target
\* file, every directory, the backups and the stamp as they were, and
\* returns the plan.
C18_DryRunChangesNothing ==
    pc = "dry_run"
        => /\ Disk = before
           /\ outcome.error = "none"
                => outcome.dry_run /\ outcome.plan = compute_plan(categories)

\* names with the unknown ones left out
KnownNames(names) == SelectSeq(names, LAMBDA n : n \in DOMAIN RegistryCategories)

----------------------------------------------------------------------------
(* sources.py: the sources config and the environment variables in it *)

(***************************************************************************)
(* A JSON value of the sources config is a record: a string holds its      *)
(* characters, a list holds its items, a dict holds its members as         *)
(* <<key, value>> pairs in the order of the file, anything else (a number, *)
(* a boolean, null) holds nothing.  os.environ is a function from the      *)
(* names that are set to their values, names and values being sequences of *)
(* characters.                                                             *)
(***************************************************************************)
Str(chars) == [json |-> "str", chars |-> chars]
List(items) == [json |-> "list", items |-> items]
Dict(members) == [json |-> "dict", members |-> members]
Number == [json |-> "number"]

\* [A-Za-z_] and [A-Za-z0-9_] of the pattern, over the characters in use
NameStart == {"A", "B", "_"}
NameChars == NameStart \cup {"1"}

\* the end of the longest run of [A-Za-z0-9_] from position i
RECURSIVE NameEnd(_, _)
NameEnd(str, i) ==
    IF i <= Len(str) /\ str[i] \in NameChars THEN NameEnd(str, i + 1) ELSE i

\* the first "}" at or after position i, 0 when there is none
RECURSIVE CloseAt(_, _)
CloseAt(str, i) ==
    IF i > Len(str) THEN 0
    ELSE IF str[i] = "}" THEN i
    ELSE CloseAt(str, i + 1)

\* the match of \$\{([^}]+)\}|\$([A-Za-z_][A-Za-z0-9_]*) that starts at
\* position i: the name it captures and the position after it
MatchAt(str, i) ==
    IF str[i] # "$" \/ i = Len(str)
    THEN [found |-> FALSE, name |-> <<>>, next |-> i + 1]
    ELSE IF str[i + 1] = "{" /\ CloseAt(str, i + 2) > i + 2
    THEN [found |-> TRUE, name |-> SubSeq(str, i + 2, CloseAt(str, i + 2) - 1),
          next |-> CloseAt(str, i + 2) + 1]
    ELSE IF str[i + 1] \in NameStart
    THEN [found |-> TRUE, name |-> SubSeq(str, i + 1, NameEnd(str, i + 1) - 1),
          next |-> NameEnd(str, i + 1)]
    ELSE [found |-> FALSE, name |-> <<>>, next |-> i + 1]

\* what an expansion gives: the value, or the SourceError of replace_var
\* with the variable it names
Expanded(v) == [raised |-> FALSE, variable |-> <<>>, value |-> v]
NotSet(name) == [raised |-> TRUE, variable |-> name, value |-> <<>>]

\* re.sub(pattern, replace_var, value): the matches from left to right,
\* none overlapping, the first variable that is not set raising
RECURSIVE Sub(_, _, _, _)
Sub(str, i, env, out) ==
    IF i > Len(str) THEN Expanded(out)
    ELSE IF ~MatchAt(str, i).found THEN Sub(str, i + 1, env, Append(out, str[i]))
    ELSE IF MatchAt(str, i).name \notin DOMAIN env THEN NotSet(MatchAt(str, i).name)
    ELSE Sub(str, MatchAt(str, i).next, env, out \o env[MatchAt(str, i).name])

expand_env_vars(value, env) == Sub(value, 1, env, <<>>)

RECURSIVE expand_config_env_vars(_, _)
RECURSIVE ExpandMembers(_, _)
RECURSIVE ExpandItems(_, _)

\* {key: expand_config_env_vars(value) for key, value in config.items()}
ExpandMembers(members, env) ==
    IF members = <<>> THEN Expanded(<<>>)
    ELSE LET first == expand_config_env_vars(members[1][2], env)
             rest == ExpandMembers(Tail(members), env)
         IN IF first.raised THEN first
            ELSE IF rest.raised THEN rest
            ELSE Expanded(<< <<members[1][1], first.value>> >> \o rest.value)

\* [expand_config_env_vars(item) for item in config]
ExpandItems(items, env) ==
    IF items = <<>> THEN Expanded(<<>>)
    ELSE LET first == expand_config_env_vars(items[1], env)
             rest == ExpandItems(Tail(items), env)
         IN IF first.raised THEN first
            ELSE IF rest.raised THEN rest
            ELSE Expanded(<<first.value>> \o rest.value)

expand_config_env_vars(config, env) ==
    IF config.json = "dict"
    THEN LET done == ExpandMembers(config.members, env)
         IN IF done.raised THEN done ELSE Expanded(Dict(done.value))
    ELSE IF config.json = "list"
    THEN LET done == ExpandItems(config.items, env)
         IN IF done.raised THEN done ELSE Expanded(List(done.value))
    ELSE IF config.json = "str"
    THEN LET done == expand_env_vars(config.chars, env)
         IN IF done.raised THEN done ELSE Expanded(Str(done.value))
    ELSE Expanded(config)

\* dict.get(key, default) on the members of a JSON dict
RECURSIVE MemberGet(_, _, _)
MemberGet(members, key, default) ==
    IF members = <<>> THEN default
    ELSE IF members[Len(members)][1] = key THEN members[Len(members)][2]
    ELSE MemberGet(SubSeq(members, 1, Len(members) - 1), key, default)

\* the names of the source types load_sources knows
SourceTypes == {Str(<<"local">>), Str(<<"github">>), Str(<<"zip">>)}

\* a sources config file: is it there, its suffix, the document json.load
\* gives (a dict at the top)
ConfigFile(suffix, document) == [exists |-> TRUE, suffix |-> suffix, document |-> document]
NoConfigFile == [exists |-> FALSE, suffix |-> ".json", document |-> Dict(<<>>)]

\* what load_sources raised, or that it returned
Loaded(error, variable, message) ==
    [error |-> error, variable |-> variable, message |-> message]
Returned == Loaded("none", <<>>, "")

\* the loop of load_sources over sources_config from entry idx on: each
\* entry is expanded, then built by its type, before the next one is looked at
RECURSIVE LoadEntries(_, _, _, _)
LoadEntries(sources_config, idx, env, kept) ==
    IF idx >= Len(sources_config) THEN [sources |-> kept, loaded |-> Returned]
    ELSE LET source_config == expand_config_env_vars(sources_config[idx + 1], env)
         IN IF source_config.raised
            THEN [sources |-> kept,
                  loaded |-> Loaded("SourceError", source_config.variable,
                                    "Failed to expand environment variables")]
            ELSE LET source_type ==
                         MemberGet(source_config.value.members, "type", Number)
                     source_name ==
                         MemberGet(source_config.value.members, "name",
                                   Str(<<"source-", ToString(idx)>>))
                 IN IF source_type \in SourceTypes
                    THEN LoadEntries(sources_config, idx + 1, env,
                                     Append(kept, [type |-> source_type,
                                                   name |-> source_name,
                                                   config |-> source_config.value]))
                    ELSE [sources |-> kept,
                          loaded |-> Loaded("SourceError", <<>>, "Unknown source type")]

\* SourceManager.load_sources(config_file), self.sources being kept before
load_sources(file, env, kept) ==
    IF ~file.exists
    THEN [sources |-> kept, loaded |-> Loaded("FileNotFoundError", <<>>,
                                              "Sources config not found")]
    ELSE IF file.suffix # ".json"
    THEN [sources |-> kept, loaded |-> Loaded("SourceError", <<>>,
                                              "Only JSON config supported currently")]
    ELSE LoadEntries(MemberGet(file.document.members, "sources", List(<<>>)).items,
                     0, env, kept)

\* SourceManager.get_primary_source(): the fetch of the first source, if
\* there is one; what is kept here is that the fetch was called
get_primary_source(kept, calls) ==
    IF kept = <<>> THEN calls ELSE Append(calls, kept[1].name)

----------------------------------------------------------------------------
(* The sources configs and environments load_sources is run on *)

\* the pieces a string is made of, at most this many
MaxRefs == 2

SourcePieces ==
    {<<"$", "{", "A", "}">>, <<"$", "B">>, <<"/">>, <<"1">>, <<"$", "{">>}

SourceStrings == {Flatten(pieces) : pieces \in SeqsUpTo(SourcePieces, MaxRefs)}

\* the environments: A and B set or not; the value of B looks like a
\* reference itself
EnvValues == (<<"A">> :> <<"a">>) @@ (<<"B">> :> <<"$", "A">>)

Environs == {[name \in set |-> EnvValues[name]] : set \in SUBSET (DOMAIN EnvValues)}

\* a string as the value of a member, inside a list, inside a dict
Placed(chars) ==
    {Str(chars), List(<<Number, Str(chars)>>), Dict(<< <<"deep", Str(chars)>> >>)}

FirstEntries ==
    {Dict(<< <<"type", Str(<<type>>)>>, <<"path", value>> >>) :
        type \in {"local", "svn"},
        value \in UNION {Placed(chars) : chars \in SourceStrings}}

SecondEntries ==
    {Dict(<< <<"type", Str(<<"github">>)>>, <<"name", Str(<<"team">>)>>,
             <<"repo", Str(chars)>> >>) :
        chars \in {<<"$", "{", "A", "}">>, <<"$", "B">>, <<"/">>}}
        \cup {Dict(<< <<"type", Str(<<"svn">>)>> >>),
              Dict(<< <<"type", Str(<<"zip">>)>>, <<"url", Str(<<"/">>)>> >>)}

SourceLists ==
    {<<>>} \cup {<<first>> : first \in FirstEntries}
           \cup {<<first, second>> : first \in FirstEntries, second \in SecondEntries}

\* the members of the document beside "sources"
Notes ==
    {<<>>, << <<"note", Str(<<"$", "{", "A", "}">>)>> >>, << <<"note", Str(<<"/">>)>> >>}

Documents ==
    {Dict(note) : note \in Notes}
        \cup {Dict(note \o << <<"sources", List(list)>> >>) :
                note \in Notes, list \in SourceLists}

ConfigFiles ==
    {NoConfigFile}
        \cup {ConfigFile(suffix, document) :
                suffix \in {".json", ".yaml"}, document \in Documents}

InitSources ==
    /\ pc = "configured"
    /\ environ \in Environs
    /\ sources_file \in ConfigFiles
    /\ sources = <<>>
    /\ loaded = EmptyDict
    /\ fetched = <<>>
    /\ MergeIdle
    /\ ScanIdle
    /\ TemplateIdle
    /\ PlanIdle
    /\ InstallIdle
    /\ VersionIdle
    /\ RestoreIdle
    /\ FetchIdle

\* source_mgr.load_sources(sources_file)
LoadSources ==
    /\ pc = "configured"
    /\ \E done \in {load_sources(sources_file, environ, sources)} :
          /\ sources' = done.sources
          /\ loaded' = done.loaded
    /\ pc' = "sources_loaded"
    /\ UNCHANGED <<environ, sources_file, fetched, mergeVars, scanVars, templateVars,
                   planVars, installVars,
                   versionVars, restoreVars, fetchVars>>

\* source_mgr.get_primary_source(), reached when load_sources returned
GetPrimarySource ==
    /\ pc = "sources_loaded"
    /\ loaded.error = "none"
    /\ fetched' = get_primary_source(sources, fetched)
    /\ pc' = "primary_fetched"
    /\ UNCHANGED <<environ, sources_file, sources, loaded, mergeVars, scanVars,
                   templateVars, planVars, installVars,
                   versionVars, restoreVars, fetchVars>>

NextSources == LoadSources \/ GetPrimarySource

SpecSources == InitSources /\ [][NextSources]_vars

----------------------------------------------------------------------------
(* C20 *)

\* the variables a string references
RECURSIVE RefsFrom(_, _)
RefsFrom(str, i) ==
    IF i > Len(str) THEN {}
    ELSE IF MatchAt(str, i).found
    THEN {MatchAt(str, i).name} \cup RefsFrom(str, MatchAt(str, i).next)
    ELSE RefsFrom(str, i + 1)

\* the strings of a JSON value
RECURSIVE JsonStrings(_)
JsonStrings(config) ==
    IF config.json = "str" THEN {config.chars}
    ELSE IF config.json = "list"
    THEN UNION {JsonStrings(config.items[i]) : i \in DOMAIN config.items}
    ELSE IF config.json = "dict"
    THEN UNION {JsonStrings(config.members[i][2]) : i \in DOMAIN config.members}
    ELSE {}

\* the variables the document references that are not set
UnsetReferenced ==
    UNION {RefsFrom(chars, 1) : chars \in JsonStrings(sources_file.document)}
        \ DOMAIN environ

\* C20: when any string of the sources document that is loaded references
\* an environment variable that is not set, load_sources raises an error
\* that names such a variable, and no fetch of a source is ever called.
C20_UnsetVariableNamedAtLoad ==
    (sources_file.exists /\ sources_file.suffix = ".json" /\ UnsetReferenced # {})
        => /\ fetched = <<>>
           /\ pc # "configured"
                => /\ loaded.error = "SourceError"
                   /\ loaded.variable \in UnsetReferenced

----------------------------------------------------------------------------
(* The install of every kind of category: the check category beside the    *)
(* others, targets that hold the team's bytes already, and user settings   *)
(* that have {{HOME}} in a field of their own                              *)

\* the names asked for here: the categories of the manifest that have files
\* listed under ~/.claude or ~/bin, the check category among them
SetupNames == {"core", "plugins", "scripts"}

\* a note of the user's that has {{HOME}} in it
UserNote == Placeholder \o <<"/", "n">>

\* the user's settings, with and without the note
UserSettingsNoted ==
    UserSettings
        \cup { [permissions |-> [allow |-> <<"Write">>, deny |-> <<"Fetch">>],
                notes |-> UserNote] }

SetupSourceTrees ==
    {SourceTree(ModeFile(TeamText, TRUE, FALSE), ModeFile(d, TRUE, FALSE), statusline) :
        d \in TeamSettings,
        statusline \in {ModeFile(TemplateText, TRUE, FALSE),
                        ModeFile(TeamText, TRUE, FALSE)}}

RequiredJson == TargetDir \o <<"plugins", "required.json">>

\* the target tree: settings.json absent, {} or the user's; the scripts
\* absent, the user's, or the team's bytes with or without execute bits
SetupTargetTrees ==
    {[TargetTree(claude_md, settings, statusline, tool) EXCEPT ![RequiredJson] = required] :
        claude_md \in {NoFile, ModeFile(UserText, TRUE, FALSE)},
        settings \in {ModeFile(d, TRUE, FALSE) : d \in UserSettingsNoted}
                        \cup {NoFile, ModeFile(EmptyDict, TRUE, FALSE)},
        statusline \in {NoFile, ModeFile(TeamText, TRUE, FALSE),
                        ModeFile(TeamText, TRUE, TRUE)},
        tool \in {NoFile, ModeFile(TeamText, TRUE, FALSE),
                  ModeFile(UserText, TRUE, TRUE)},
        required \in {NoFile, ModeFile(UserText, TRUE, FALSE)}}

InitSetup ==
    /\ pc = "loaded"
    /\ config_files \in SetupSourceTrees
    /\ target_files \in SetupTargetTrees
    /\ categories \in SeqsUpTo(SetupNames, MaxNames)
    /\ plan = EmptyDict
    /\ plan_again = EmptyDict
    /\ target_dirs \in {DirsOf(target_files), DirsOf(target_files) \cup Dirs(TargetDir)}
    /\ target_writable \in (IF TargetDir \in target_dirs THEN BOOLEAN ELSE {TRUE})
    /\ backups = EmptyDict
    /\ stamp = EmptyDict
    /\ now = 0
    /\ outcome = EmptyDict
    /\ first_outcome = EmptyDict
    /\ before = EmptyDict
    /\ MergeIdle
    /\ ScanIdle
    /\ TemplateIdle
    /\ SourcesIdle
    /\ VersionIdle
    /\ RestoreIdle
    /\ FetchIdle

SpecSetup == InitSetup /\ [][NextInstall]_vars

----------------------------------------------------------------------------
(* Claims about the install, checked under SpecSetup *)

SettingsJson == TargetDir \o <<"settings.json">>

\* an install that returned and has merged settings.json
MergedInstall == pc = "installed" /\ outcome.error = "none" /\ outcome.stats.merged

\* the keys merge_settings takes from the team's document
TeamKeys == {"permissions", "model", "statusLine", "alwaysThinkingEnabled",
             "enabledPlugins", "$schema"}

\* C26: when install merges a merge-flagged file, every personal field of
\* the existing target (permissions.deny, permissions.ask, the keys the
\* merge does not know) is written back as it was, also when its text holds
\* {{HOME}}: the substitution is applied to the team side only.
C26_PersonalFieldsVerbatim ==
    (MergedInstall /\ Exists(before.files, SettingsJson))
        => LET old == before.files[SettingsJson].bytes
               new == target_files[SettingsJson].bytes
           IN  /\ \A k \in DOMAIN old \ TeamKeys : k \in DOMAIN new /\ new[k] = old[k]
               /\ "permissions" \in DOMAIN old
                    => \A k \in DOMAIN old["permissions"] \cap {"deny", "ask"} :
                            new["permissions"][k] = old["permissions"][k]

\* C27: installing a merge-flagged file whose target is absent or holds {}
\* writes merge_settings(team, {}) with the templates resolved: the team's
\* recognized fields, permissions.allow sorted and without duplicates.
C27_FirstInstallThroughMerge ==
    (MergedInstall
        /\ (Exists(before.files, SettingsJson)
                => before.files[SettingsJson].bytes = EmptyDict))
        => target_files[SettingsJson].bytes
              = ResolveSettings(
                    merge_settings(config_files[<<"core", "settings.json">>].bytes,
                                   EmptyDict),
                    HomeDir)

\* the target paths of the entries listed under the check categories
CheckPaths ==
    UNION {{TargetBase(Manifest[i]) \o Manifest[i].files[j].dest :
                j \in 1..Len(Manifest[i].files)} :
            i \in {n \in 1..Len(Manifest) : Manifest[n].install_type = "check"}}

\* C28: for a category whose install_type is check no file is installed:
\* compute_plan lists no entry for it and install writes no file for it,
\* whatever the files list of the category holds.
C28_CheckInstallsNothing ==
    /\ pc # "loaded"
        => \A status \in Buckets : BucketPaths(status) \cap CheckPaths = {}
    /\ pc = "installed"
        => \A path \in CheckPaths : target_files[path] = before.files[path]

\* C29: after every successful install each non-merge entry flagged
\* executable in the selected categories has its execute bits set at the
\* target path, also when the target was there before with the bytes of the
\* source and without execute bits.
C29_ExecutableAfterInstall ==
    (pc = "installed" /\ outcome.error = "none")
        => \A e \in SelectedEntries :
                (~e.entry.merge /\ e.entry.executable)
                    => /\ Exists(target_files, e.dest_path)
                       /\ target_files[e.dest_path].executable

----------------------------------------------------------------------------
(* version.py: has_updates after an install, the trees being edited *)

\* VersionManager.has_updates, the stamp document being {} when there is
\* no stamp file
has_updates(installed, files) ==
    IF installed = EmptyDict THEN TRUE
    ELSE installed.config_hash # ConfigHash(files)

\* the most edits made to the trees after an install
MaxEdits == 2

\* files of the source tree beside the ones the manifest lists
ExtraPaths == {<<"x">>, <<"y">>, <<".h">>}

\* what such a file holds; an edit may leave it unreadable
ExtraTexts == {<<"b">>, <<"d">>, <<"b", "y", "d">>}

ExtraStates ==
    {NoFile} \cup {ModeFile(text, TRUE, FALSE) : text \in ExtraTexts}
             \cup {ModeFile(<<"b">>, FALSE, FALSE)}

\* the source tree before the install: the manifest's files and the others
VersionSourceTrees ==
    {[path \in SrcPaths \cup ExtraPaths |->
        IF path \in ExtraPaths THEN extra[path]
        ELSE IF path = <<"core", "settings.json">>
        THEN ModeFile([permissions |-> [allow |-> <<"Bash">>], model |-> "opus"],
                      TRUE, FALSE)
        ELSE ModeFile(TeamText, TRUE, FALSE)] :
        extra \in [ExtraPaths -> {NoFile, ModeFile(<<"b">>, TRUE, FALSE),
                                  ModeFile(<<"d">>, TRUE, FALSE)}]}

InitVersion ==
    /\ pc = "loaded"
    /\ config_files \in VersionSourceTrees
    /\ target_files
         \in {TargetTree(NoFile, NoFile, NoFile, NoFile),
              TargetTree(ModeFile(UserText, TRUE, FALSE), NoFile, NoFile, NoFile)}
    /\ categories \in {<<>>, <<"core">>}
    /\ plan = EmptyDict
    /\ plan_again = EmptyDict
    /\ target_dirs = DirsOf(target_files) \cup Dirs(TargetDir)
    /\ target_writable \in BOOLEAN
    /\ backups = EmptyDict
    /\ stamp = EmptyDict
    /\ now = 0
    /\ outcome = EmptyDict
    /\ first_outcome = EmptyDict
    /\ before = EmptyDict
    /\ updates = "none"
    /\ stamped_files = EmptyDict
    /\ edits = 0
    /\ MergeIdle
    /\ ScanIdle
    /\ TemplateIdle
    /\ SourcesIdle
    /\ RestoreIdle
    /\ FetchIdle

AfterInstall == pc \in {"installed", "reinstalled"}

\* the team changes the source tree: a file is written, removed, or closed
\* to reading
EditSource ==
    /\ AfterInstall
    /\ edits < MaxEdits
    /\ \E path \in ExtraPaths \cup {<<"core", "CLAUDE.md">>} :
       \E file \in IF path \in ExtraPaths THEN ExtraStates
                   ELSE {ModeFile(UserText, TRUE, FALSE)} :
          /\ config_files[path] # file
          /\ config_files' = Put(config_files, path, file)
    /\ edits' = edits + 1
    /\ UNCHANGED <<pc, target_files, categories, plan, installVars, updates,
                   stamped_files, mergeVars, scanVars, templateVars, sourceVars,
                   restoreVars, fetchVars>>

\* the user changes an installed file of the target tree, or removes it
EditTarget ==
    /\ AfterInstall
    /\ edits < MaxEdits
    /\ \E path \in {TargetDir \o <<"CLAUDE.md">>, TargetDir \o <<"settings.json">>} :
       \E file \in IF path = TargetDir \o <<"CLAUDE.md">>
                   THEN {NoFile, ModeFile(UserText, TRUE, FALSE)}
                   ELSE {NoFile} \cup {ModeFile(d, TRUE, FALSE) : d \in UserSettings} :
          /\ target_files[path] # file
          /\ target_files' = Put(target_files, path, file)
    /\ edits' = edits + 1
    /\ UNCHANGED <<pc, config_files, categories, plan, installVars, updates,
                   stamped_files, mergeVars, scanVars, templateVars, sourceVars,
                   restoreVars, fetchVars>>

\* version_mgr.has_updates()
HasUpdates ==
    /\ AfterInstall
    /\ updates' = has_updates(stamp, config_files)
    /\ pc' = "checked"
    /\ UNCHANGED <<planVars, installVars, stamped_files, edits, mergeVars, scanVars,
                   templateVars, sourceVars, restoreVars, fetchVars>>

NextVersion == ComputePlan \/ ComputePlanAgain \/ Install \/ InstallAgain
                    \/ EditSource \/ EditTarget \/ HasUpdates

SpecVersion == InitVersion /\ [][NextVersion]_vars

----------------------------------------------------------------------------
(* C23 *)

\* the files of a source tree: the relative path and the bytes of each
SourceContent(files) ==
    [path \in {q \in DOMAIN files : files[q].exists} |-> files[path].bytes]

\* C23: has_updates depends only on the source tree and the stamp: after a
\* successful install it returns False as long as no source file's relative
\* path or bytes changed, whatever was changed in the target tree, and True
\* once the relative path or the bytes of any source file differ from those
\* at the last successful install.
C23_UpdatesIffSourceChanged ==
    (pc = "checked" /\ stamped_files # EmptyDict)
        => (updates <=> SourceContent(config_files) # SourceContent(stamped_files))

----------------------------------------------------------------------------
(* backup.py: list_backups and restore_backup *)

\* a backup directory without backup-manifest.json
NoManifest == [absent |-> TRUE]

\* a legacy backup: a directory of files, with the mtime stat gives
LegacyBackup(files, mtime) == [files |-> files, manifest |-> NoManifest, mtime |-> mtime]

\* name.startswith("claude-setup-") or name.startswith("backup-")
ValidPrefix(name) == name[1] \in {"claude-setup", "backup"}

\* the "created" member of a backup's info: created_at of the manifest, a
\* string, or st_mtime of the directory, a float
CreatedOf(dir) ==
    IF dir.manifest = NoManifest THEN [type |-> "float", at |-> dir.mtime]
    ELSE [type |-> "str", at |-> dir.manifest.created_at]

\* the info dict list_backups makes for a directory
BackupInfo(dirs, name) ==
    [id |-> name,
     created |-> CreatedOf(dirs[name]),
     categories |-> IF dirs[name].manifest = NoManifest THEN <<>>
                    ELSE dirs[name].manifest.categories,
     file_count |-> IF dirs[name].manifest = NoManifest
                    THEN Cardinality(DOMAIN dirs[name].files)
                    ELSE Len(dirs[name].manifest.files)]

\* every order of the names in which "created" does not go up: what
\* sort(key=created, reverse=True) may give, the order glob lists the
\* directories in not being fixed and the sort being stable
Orders(dirs, names) ==
    {s \in [1..Cardinality(names) -> names] :
        /\ \A i, j \in DOMAIN s : i < j => s[i] # s[j]
        /\ \A i, j \in DOMAIN s :
              i < j => CreatedOf(dirs[s[i]]).at >= CreatedOf(dirs[s[j]]).at}

\* BackupManager.list_backups(): the lists it may return, or the TypeError
\* the sort raises when it compares a str with a float
list_backups(dirs) ==
    LET names == {name \in DOMAIN dirs : ValidPrefix(name)}
        types == {CreatedOf(dirs[name]).type : name \in names}
    IN  IF Cardinality(types) > 1
        THEN {[error |-> "TypeError", backups |-> <<>>]}
        ELSE {[error |-> "none",
               backups |-> [i \in DOMAIN s |-> BackupInfo(dirs, s[i])]] :
                    s \in Orders(dirs, names)}

\* the loop `for rel_path_str in files_to_restore`: every file the backup
\* holds goes back to its place under claude_dir, with its mode (copy2)
RestoreFiles(files, dir, rels) ==
    LET held == {rel \in rels : Exists(dir.files, rel)}
        dests == {ClaudeDir \o rel : rel \in held}
    IN  [path \in DOMAIN files \cup dests |->
            IF path \in dests THEN dir.files[RelativeTo(path, ClaudeDir)]
            ELSE files[path]]

\* BackupManager.restore_backup(backup_id), listing being what list_backups
\* returns or raises at the call
restore_backup(dirs, files, tdirs, backup_id, listing) ==
    LET chosen ==
            IF backup_id = None
            THEN IF listing.error # "none" THEN [error |-> listing.error, id |-> None]
                 ELSE IF listing.backups = <<>>
                 THEN [error |-> "FileNotFoundError", id |-> None]
                 ELSE [error |-> "none", id |-> listing.backups[1].id]
            ELSE IF backup_id \notin DOMAIN dirs
            THEN [error |-> "FileNotFoundError", id |-> None]
            ELSE [error |-> "none", id |-> backup_id]
        files_to_restore ==
            IF dirs[chosen.id].manifest = NoManifest
            THEN DOMAIN dirs[chosen.id].files
            ELSE SeqToSet(dirs[chosen.id].manifest.files)
        held == {rel \in files_to_restore : Exists(dirs[chosen.id].files, rel)}
    IN  IF chosen.error # "none"
        THEN [files |-> files, dirs |-> tdirs, error |-> chosen.error, path |-> None]
        ELSE [files |-> RestoreFiles(files, dirs[chosen.id], files_to_restore),
              dirs |-> tdirs \cup UNION {Dirs(Parent(ClaudeDir \o rel)) : rel \in held},
              error |-> "none", path |-> chosen.id]

----------------------------------------------------------------------------
(* The backups made, listed and restored *)

\* the most calls of create_backup in a run
MaxBackups == 2

\* the files of ~/.claude a backup is asked for
ClaudeMd == ClaudeDir \o <<"CLAUDE.md">>
StatusLineSh == ClaudeDir \o <<"statusline.sh">>

BackupRequests == {<<ClaudeMd>>, <<StatusLineSh>>, <<ClaudeMd, StatusLineSh>>}

\* what the user writes into them
EditTexts == {UserText, <<"v">>}

\* the directories under ~/.claude/backups before the first call: none, or
\* legacy backups from an older release, one beside a directory that is no
\* backup; their mtimes lie before the clock starts
OldFiles == (<<"CLAUDE.md">> :> ModeFile(<<"o">>, TRUE, FALSE))

InitialBackups ==
    { EmptyDict,
      (<<"backup", 1>> :> LegacyBackup(OldFiles, -2)),
      (<<"backup", 1>> :> LegacyBackup(OldFiles, -2))
            @@ (<<"backup", 2>> :> LegacyBackup(OldFiles, -1)),
      (<<"backup", 1>> :> LegacyBackup(OldFiles, -1))
            @@ (<<"backup", 2>> :> LegacyBackup(OldFiles, -1)),
      (<<"backup", 1>> :> LegacyBackup(OldFiles, -2))
            @@ (<<"notes", 1>> :> LegacyBackup(OldFiles, -1)) }

InitBackup ==
    /\ pc = "backing"
    /\ config_files = EmptyDict
    /\ target_files
         \in {TargetTree(ModeFile(UserText, TRUE, FALSE), NoFile, statusline, NoFile) :
                statusline \in {NoFile, ModeFile(UserText, TRUE, TRUE)}}
    /\ categories = <<"core">>
    /\ plan = EmptyDict
    /\ plan_again = EmptyDict
    /\ target_dirs = DirsOf(target_files) \cup Dirs(ClaudeDir \o <<"backups">>)
    /\ target_writable = TRUE
    /\ backups \in InitialBackups
    /\ stamp = EmptyDict
    /\ now = 0
    /\ outcome = EmptyDict
    /\ first_outcome = EmptyDict
    /\ before = EmptyDict
    /\ updates = "none"
    /\ stamped_files = EmptyDict
    /\ edits = 0
    /\ backup_list = EmptyDict
    /\ restored = EmptyDict
    /\ snapshots = <<>>
    /\ MergeIdle
    /\ ScanIdle
    /\ TemplateIdle
    /\ SourcesIdle
    /\ FetchIdle

\* backup_mgr.create_backup(files, categories); the history keeps what the
\* directory holds as the call returns
CreateBackup ==
    /\ pc = "backing"
    /\ Len(snapshots) < MaxBackups
    /\ \E paths \in BackupRequests :
       \E done \in {create_backup(backups, target_files, paths, categories, now)} :
          /\ backups' = done.dirs
          /\ snapshots' = Append(snapshots, [name |-> done.path,
                                             files |-> done.dirs[done.path].files])
    /\ UNCHANGED <<pc, planVars, plan_again, target_dirs, target_writable, stamp, now,
                   outcome, first_outcome, before, versionVars, backup_list, restored,
                   mergeVars, scanVars, templateVars, sourceVars, fetchVars>>

\* the user rewrites a file of ~/.claude
EditFile ==
    /\ pc = "backing"
    /\ edits < MaxEdits
    /\ \E path \in {ClaudeMd, StatusLineSh} :
       \E text \in EditTexts :
          /\ Exists(target_files, path) => target_files[path].bytes # text
          /\ target_files' = Put(target_files, path, ModeFile(text, TRUE, FALSE))
    /\ edits' = edits + 1
    /\ UNCHANGED <<pc, config_files, categories, plan, installVars, updates,
                   stamped_files, restoreVars, mergeVars, scanVars, templateVars,
                   sourceVars, fetchVars>>

\* a second goes by
ClockTick ==
    /\ pc = "backing"
    /\ now < MaxClock
    /\ now' = now + 1
    /\ UNCHANGED <<pc, planVars, plan_again, target_dirs, target_writable, backups,
                   stamp, outcome, first_outcome, before, versionVars, restoreVars,
                   mergeVars, scanVars, templateVars, sourceVars, fetchVars>>

\* backup_mgr.list_backups()
ListBackups ==
    /\ pc = "backing"
    /\ backup_list' \in list_backups(backups)
    /\ pc' = "listed"
    /\ UNCHANGED <<planVars, installVars, versionVars, restored, snapshots, mergeVars,
                   scanVars, templateVars, sourceVars, fetchVars>>

\* backup_mgr.restore_backup(backup_id): a directory that is there, one
\* that is not, or None for the most recent one
RestoreBackup ==
    /\ pc = "listed"
    /\ \E backup_id \in DOMAIN backups \cup {None, BackupName(MaxClock + 1)} :
       \E listing \in list_backups(backups) :
       \E done \in {restore_backup(backups, target_files, target_dirs, backup_id,
                                   listing)} :
          /\ target_files' = done.files
          /\ target_dirs' = done.dirs
          /\ restored' = [id |-> backup_id, error |-> done.error, path |-> done.path]
    /\ pc' = "restored"
    /\ UNCHANGED <<config_files, categories, plan, plan_again, target_writable, backups,
                   stamp, now, outcome, first_outcome, before, versionVars,
                   backup_list, snapshots, mergeVars, scanVars, templateVars,
                   sourceVars, fetchVars>>

NextBackup == CreateBackup \/ EditFile \/ ClockTick \/ ListBackups \/ RestoreBackup

SpecBackup == InitBackup /\ [][NextBackup]_vars

----------------------------------------------------------------------------
(* C24, C30 *)

\* the files backup b held as the first create_backup call for it returned
FirstSnapshot(b) ==
    snapshots[CHOOSE i \in DOMAIN snapshots :
                /\ snapshots[i].name = b
                /\ \A j \in 1..(i - 1) : snapshots[j].name # b].files

\* C24: restore_backup(b) sets every file listed in the manifest of backup
\* b to the bytes the file had when b was created, whatever was written to
\* the files and whatever create_backup calls were made in between.
C24_RestoreGivesBytesAtCreation ==
    (pc = "restored" /\ restored.error = "none"
        /\ \E i \in DOMAIN snapshots : snapshots[i].name = restored.id)
        => \A rel \in DOMAIN FirstSnapshot(restored.id) :
                /\ Exists(target_files, ClaudeDir \o rel)
                /\ target_files[ClaudeDir \o rel].bytes
                        = FirstSnapshot(restored.id)[rel].bytes

\* the backup directories, and when each was created
BackupNames == {name \in DOMAIN backups : ValidPrefix(name)}

CreationTime(name) == CreatedOf(backups[name]).at

\* C30: list_backups returns every backup directory with a valid prefix,
\* newest first by creation time, for any mix of backups with a manifest
\* and legacy backups without one; restore_backup(None) restores the first
\* of that list, the most recently created backup.
C30_NewestFirstForAnyMix ==
    /\ pc \in {"listed", "restored"}
        => /\ backup_list.error = "none"
           /\ Len(backup_list.backups) = Cardinality(BackupNames)
           /\ {backup_list.backups[i].id : i \in DOMAIN backup_list.backups}
                    = BackupNames
           /\ \A i, j \in DOMAIN backup_list.backups :
                    i < j => CreationTime(backup_list.backups[i].id)
                                >= CreationTime(backup_list.backups[j].id)
    /\ (pc = "restored" /\ restored.id = None /\ BackupNames # {})
        => /\ restored.error = "none"
           /\ \A name \in BackupNames :
                    CreationTime(restored.path) >= CreationTime(name)

(***************************************************************************)
(* sources.py: the fetchers.  A directory tree is a function from the      *)
(* paths under its root to what each path holds; a cache directory is a    *)
(* function from entry names to trees.                                     *)
(***************************************************************************)

DirNode == [dir |-> TRUE, bytes |-> ""]

FileNode(text) == [dir |-> FALSE, bytes |-> text]

EmptyTree == [p \in {} |-> DirNode]

\* the entries directly under the root of a tree: dest_path.iterdir()
TopLevel(tree) == {p \in DOMAIN tree : Len(p) = 1}

\* the leading parts of a path, the path itself left out
Parents(path) == {SubSeq(path, 1, n) : n \in 1..(Len(path) - 1)}

\* zip_ref.extractall(dest_path) into an empty directory: every member is
\* written at its name and the directories above it are made on the way
extractall(members) ==
    LET named == {m.path : m \in members}
        above == UNION {Parents(m.path) : m \in members}
    IN  [p \in named \cup above |->
            IF p \in named
            THEN LET m == CHOOSE m \in members : m.path = p
                 IN  IF m.dir THEN DirNode ELSE FileNode(m.bytes)
            ELSE DirNode]

\* a different test: one directory at the top level, whatever lies beside it
OneTopLevelDirAmongOthers(tree) ==
    Cardinality({p \in TopLevel(tree) : tree[p].dir}) = 1

\* the test of the flatten rule: len(items) == 1 and items[0].is_dir()
SingleTopLevelDir(tree) ==
    /\ Cardinality(TopLevel(tree)) = 1
    /\ \A p \in TopLevel(tree) : tree[p].dir

\* the tree under the one top-level directory, which items[0].rename(temp_dir)
\* moves out and temp_dir.rename(dest_path) puts in the place of dest_path
Hoisted(tree) ==
    [q \in {Tail(p) : p \in {r \in DOMAIN tree : Len(r) > 1}} |->
        tree[CHOOSE p \in DOMAIN tree : Len(p) > 1 /\ Tail(p) = q]]

\* final_path.exists() for final_path = dest_path / config_subdir
SubPathExists(tree, subdir) == subdir = <<>> \/ subdir \in DOMAIN tree

\* f"{self.name}_temp"
TempName(name) == name \o "_temp"

\* the cache directory without the entry of that name: shutil.rmtree
Without(entries, name) == [n \in DOMAIN entries \ {name} |-> entries[n]]

\* the cache directory with the entry of that name holding the tree
With(entries, name, tree) ==
    [n \in DOMAIN entries \cup {name} |-> IF n = name THEN tree ELSE entries[n]]

\* what a fetch returned or raised, and the cache directory it left
Fetched(error, path, entries) == [error |-> error, path |-> path, cache |-> entries]

\* LocalSource.fetch(cache_dir) of the source called name, where from is what
\* the configured path holds.  copytree copies every file it can and raises
\* shutil.Error at the end when some could not be copied.
LocalSource_fetch(name, from, entries) ==
    IF from.state = "missing" THEN Fetched("SourceError", <<>>, entries)
    ELSE IF from.state = "file" THEN Fetched("SourceError", <<>>, entries)
    ELSE LET copied == [p \in DOMAIN from.tree \ from.unreadable |-> from.tree[p]]
             left == With(Without(entries, name), name, copied)
         IN  IF from.unreadable # {}
             THEN Fetched("Error", <<>>, left)
             ELSE Fetched("none", <<name>>, left)

\* GitHubSource.fetch(cache_dir): git fetch, checkout and pull in the entry
\* when it exists, git clone otherwise.  Only CalledProcessError is caught;
\* subprocess.run raises FileNotFoundError when there is no git to run.
GitHubSource_fetch(name, from, entries) ==
    IF from.state = "unavailable" THEN Fetched("FileNotFoundError", <<>>, entries)
    ELSE IF from.state = "fails" THEN Fetched("SourceError", <<>>, entries)
    ELSE LET left == With(entries, name, from.tree)
         IN  IF SubPathExists(from.tree, from.subdir)
             THEN Fetched("none", <<name>> \o from.subdir, left)
             ELSE Fetched("SourceError", <<>>, left)

\* ZipSource.fetch(cache_dir): the entry is removed and made anew before the
\* download; every exception after that is raised again as SourceError.
ZipSource_fetch(name, from, entries) ==
    LET made == With(Without(entries, name), name, EmptyTree)
        temp == TempName(name)
        extracted == extractall(from.members)
        taken == temp \in DOMAIN made /\ DOMAIN made[temp] # {}
        tree == IF SingleTopLevelDir(extracted) THEN Hoisted(extracted) ELSE extracted
        left == IF SingleTopLevelDir(extracted)
                THEN With(Without(made, temp), name, tree)
                ELSE With(made, name, tree)
    IN  IF from.state = "fails" THEN Fetched("SourceError", <<>>, made)
        ELSE IF from.state = "not_zip" THEN Fetched("SourceError", <<>>, made)
        ELSE IF SingleTopLevelDir(extracted) /\ taken
        THEN Fetched("SourceError", <<>>, With(made, name, extracted))
        ELSE IF SubPathExists(tree, from.subdir)
        THEN Fetched("none", <<name>> \o from.subdir, left)
        ELSE Fetched("SourceError", <<>>, left)

\* source.fetch(cache_dir) for the kind of the source
fetch(name, from, entries) ==
    IF from.kind = "local" THEN LocalSource_fetch(name, from, entries)
    ELSE IF from.kind = "github" THEN GitHubSource_fetch(name, from, entries)
    ELSE ZipSource_fetch(name, from, entries)

\* the most members an archive or a directory is given here
MaxMembers == 3

SourceName == "s"

FileTexts == {"1", "2"}

\* the members archives are made of: file.txt under a wrapper directory,
\* file1.txt and subdir/file2.txt side by side, and directory members
MemberPool(text) ==
    { [path |-> <<"wrapper">>, dir |-> TRUE, bytes |-> ""],
      [path |-> <<"wrapper", "file.txt">>, dir |-> FALSE, bytes |-> text],
      [path |-> <<"wrapper", "subdir">>, dir |-> TRUE, bytes |-> ""],
      [path |-> <<"file1.txt">>, dir |-> FALSE, bytes |-> text],
      [path |-> <<"subdir">>, dir |-> TRUE, bytes |-> ""],
      [path |-> <<"subdir", "file2.txt">>, dir |-> FALSE, bytes |-> text] }

Archives ==
    UNION {{m \in SUBSET MemberPool(text) : Cardinality(m) <= MaxMembers} :
           text \in FileTexts}

Trees == {extractall(m) : m \in Archives}

SubDirs == {<<>>, <<"subdir">>}

FilesOf(tree) == {p \in DOMAIN tree : ~tree[p].dir}

Place(kind, state, tree, members, subdir, unreadable) ==
    [kind |-> kind, state |-> state, tree |-> tree, members |-> members,
     subdir |-> subdir, unreadable |-> unreadable]

LocalPlaces ==
    {Place("local", state, EmptyTree, {}, <<>>, {}) : state \in {"missing", "file"}}
    \cup {Place("local", "dir", tree, {}, <<>>, {}) : tree \in Trees}
    \cup UNION {{Place("local", "dir", tree, {}, <<>>, {p}) : p \in FilesOf(tree)} :
                tree \in Trees}

GitHubPlaces ==
    UNION {{Place("github", state, EmptyTree, {}, subdir, {}) :
                state \in {"unavailable", "fails"}}
           \cup {Place("github", "ok", tree, {}, subdir, {}) : tree \in Trees} :
           subdir \in SubDirs}

ZipPlaces ==
    UNION {{Place("zip", state, EmptyTree, {}, subdir, {}) :
                state \in {"fails", "not_zip"}}
           \cup {Place("zip", "ok", EmptyTree, m, subdir, {}) : m \in Archives} :
           subdir \in SubDirs}

Places == LocalPlaces \cup GitHubPlaces \cup ZipPlaces

\* the cache directory before the first fetch: empty, or holding the entry
\* of another source whose name is this one's with _temp after it
InitialCaches ==
    {EmptyDict}
    \cup {[n \in {TempName(SourceName)} |-> tree] :
          tree \in {EmptyTree, extractall({[path |-> <<"file1.txt">>, dir |-> FALSE,
                                            bytes |-> "1"]})}}

NoEntry == [present |-> FALSE, tree |-> EmptyTree]

InitFetch ==
    /\ pc = "unfetched"
    /\ cache \in InitialCaches
    /\ origin \in Places
    /\ fetch_outcome = EmptyDict
    /\ stale = NoEntry
    /\ MergeIdle
    /\ ScanIdle
    /\ TemplateIdle
    /\ PlanIdle
    /\ InstallIdle
    /\ SourcesIdle
    /\ VersionIdle
    /\ RestoreIdle

notFetchVars == <<mergeVars, scanVars, templateVars, planVars, installVars, sourceVars,
                  versionVars, restoreVars>>

\* the first source.fetch(cache_dir)
Fetch ==
    /\ pc = "unfetched"
    /\ \E done \in {fetch(SourceName, origin, cache)} :
        /\ cache' = done.cache
        /\ fetch_outcome' = [error |-> done.error, path |-> done.path]
        /\ stale' = IF done.error = "none"
                    THEN [present |-> TRUE, tree |-> done.cache[SourceName]]
                    ELSE NoEntry
    /\ pc' = "fetched"
    /\ UNCHANGED <<origin, notFetchVars>>

\* between two fetches the place the source names comes to hold something else
ChangePlace ==
    /\ pc = "fetched"
    /\ \E place \in Places :
        /\ place.kind = origin.kind
        /\ place.subdir = origin.subdir
        /\ place # origin
        /\ origin' = place
    /\ pc' = "changed"
    /\ UNCHANGED <<cache, fetch_outcome, stale, notFetchVars>>

\* source.fetch(cache_dir) once more, into the cache the first fetch left
FetchAgain ==
    /\ pc \in {"fetched", "changed"}
    /\ \E done \in {fetch(SourceName, origin, cache)} :
        /\ cache' = done.cache
        /\ fetch_outcome' = [error |-> done.error, path |-> done.path]
    /\ pc' = "refetched"
    /\ UNCHANGED <<origin, stale, notFetchVars>>

NextFetch == Fetch \/ ChangePlace \/ FetchAgain

SpecFetch == InitFetch /\ [][NextFetch]_vars

\* C21: a ZipSource.fetch that returns leaves, when extraction produced exactly
\* one top-level entry and that entry is a directory, the contents of that
\* directory at the root of the cache entry, the wrapper gone; and in every
\* other case the layout exactly as extracted.
C21_ZipFlattenRule ==
    (/\ pc \in {"fetched", "refetched"}
     /\ origin.kind = "zip"
     /\ fetch_outcome.error = "none")
        => LET extracted == extractall(origin.members)
               top == TopLevel(extracted)
               entry == cache[SourceName]
           IN  IF Cardinality(top) = 1 /\ \A p \in top : extracted[p].dir
               THEN /\ DOMAIN entry = {Tail(p) : p \in {r \in DOMAIN extracted : Len(r) > 1}}
                    /\ \A p \in DOMAIN extracted :
                            Len(p) > 1 => entry[Tail(p)] = extracted[p]
               ELSE entry = extracted

\* an archive holding wrapper/file.txt only has been fetched: file.txt is at
\* the root of the cache entry
C21_Witness ==
    /\ pc = "fetched"
    /\ origin.kind = "zip"
    /\ fetch_outcome.error = "none"
    /\ TopLevel(extractall(origin.members)) = {<<"wrapper">>}
    /\ <<"file.txt">> \in DOMAIN cache[SourceName]
    /\ <<"wrapper">> \notin DOMAIN cache[SourceName]

\* C22: whatever makes a fetch fail, for a local, a github or a zip source,
\* the exception that comes out of fetch is a SourceError.
C22_EveryFailureIsSourceError ==
    pc \in {"fetched", "refetched"} => fetch_outcome.error \in {"none", "SourceError"}

\* C25: when a fetch fails after an earlier fetch of the same source
\* succeeded, the cache entry of the source is still there and holds what
\* the earlier fetch left.
C25_StaleCacheSurvivesFailedRefetch ==
    (/\ pc = "refetched"
     /\ stale.present
     /\ fetch_outcome.error # "none")
        => /\ SourceName \in DOMAIN cache
           /\ cache[SourceName] = stale.tree

====
